---- MODULE Spec2Model ----
(***************************************************************************)
(* Model of the lbu stream library: the mirrored-index ring algebra        *)
(* (ring_spsc.h), the stream fast path (abstract_stream.h) and the         *)
(* single-producer/single-consumer ring stream pair                        *)
(* (ring_spsc_stream.h/.cpp).                                              *)
(*                                                                         *)
(* The two threads interleave at the granularity of one access to shared   *)
(* state (an atomic load, store or compare-exchange, one event counter     *)
(* system call, one memcpy on the ring memory).  Atomic accesses are taken *)
(* as sequentially consistent.  The bytes the producer writes are numbered *)
(* 1, 2, 3, ... so that loss, duplication and reordering are visible.      *)
(***************************************************************************)
EXTENDS Integers, Sequences, FiniteSets, TLC

(* ------------------------------ bounds --------------------------------- *)
MaxRing == 2
MaxBytes == 3
MaxChunk == 2
MaxAlgRing == 6
MaxSrc == 6
MaxFdBuf == 2
MaxFdSrc == 3

(* io_vector_array_advance on its own: arrays of up to MaxIov elements *)
MaxIov == 3

(* byte_buffer::erase on its own: external buffers of up to MaxExtSize bytes *)
MaxExtSize == 4

(* ------------------------- program constants --------------------------- *)
StatusError == 1
StatusEndOfStream == 2
StatusBufferReady == 0
DefaultRingSegmentLimit == 32768
(* byte_buffer: sizeof(external_data) - 1, the capacity of the small representation *)
SmallResered == 15
(* byte_buffer::max_size(): (size_t(1) << 31) - 1 *)
ByteBufferMaxSize == 2147483647
(* a byte size above std::numeric_limits<uint32_t>::max(): the model's integers
   end at 2^31 - 1, so this one value stands for every such size *)
OverUint32 == 2147483647

Modes == {"Blocking", "NonBlocking"}

Min(a, b) == IF a < b THEN a ELSE b

(* statusFlags is a bit set held in an uint8_t *)
HasBit(f, bit) == (f \div bit) % 2 = 1
OrBit(f, bit) == IF HasBit(f, bit) THEN f ELSE f + bit
has_error(f) == HasBit(f, StatusError)
at_end(f) == HasBit(f, StatusEndOfStream)

(* --------------------------- ring algebra ------------------------------ *)
continuous_slots(off, count, n) == Min(count, n - off)

producer_free_slots(p, c, n) == IF p >= c THEN n - (p - c) ELSE c - n - p

(* mutant: the mirrored branch wraps at n instead of 2n *)
consumer_free_slots_single(p, c, n) == IF c <= p THEN p - c ELSE n - c + p

consumer_free_slots(p, c, n) == IF c <= p THEN p - c ELSE 2*n - c + p

offset(idx, n) == IF idx >= n THEN idx - n ELSE idx

(* mutant: the index wraps only after it has passed 2N *)
new_index_late(idx, cnt, n) == IF 2*n - idx >= cnt THEN idx + cnt ELSE idx - n + cnt - n

(* mutant: the index wraps at N, as an index that is not mirrored *)
new_index_single(idx, cnt, n) == IF n - idx > cnt THEN idx + cnt ELSE idx + cnt - n

new_index(idx, cnt, n) == IF 2*n - idx > cnt THEN idx + cnt ELSE idx - n + cnt - n

(* ------------------------------- state --------------------------------- *)
VARIABLES
    paired,       \* pair_streams has run
    ringSize,     \* d.ringSize of both streams
    ring,         \* the shared ring memory, cell -> byte (0: never written)
    shared,       \* ring_spsc_shared_data
    efd,          \* the event counter: 0, or 1 for a pending MaximumValue
    ostream,      \* ring_spsc::output_stream (fast path state and data d)
    istream,      \* ring_spsc::input_stream
    pt,           \* producer thread: position and locals of the running call
    ct,           \* consumer thread
    sent,         \* number of bytes the producer has put into the stream
    published,    \* number of bytes covered by the stored producer_index
    recv,         \* bytes the consumer has taken out of the stream
    released,     \* number of bytes covered by the stored consumer_index
    aborted,      \* the assertion on which the process aborted, or "none"
    pdone,        \* the producer's program has made its last call (scenarios)
    fdOk,         \* the event counter descriptor is usable: its calls do not fail
    algN, algP, algC, \* ring algebra on its own: size and index pair
    algSide, algK,    \* the side that advanced last and the count it advanced by
    algPF, algCF,     \* the free slots of the two sides before that advance
    idxN, idxI,       \* new_index on its own: size and current index
    idxPrev, idxK,    \* the index before the last new_index and its count
    bbLen,            \* byte_buffer_input_stream: byte size of the source range
    bb,               \* its buffer_offset, buffer_available and status_flags
    bbOut,            \* the bytes its read calls have copied to the caller
    bbSum,            \* the sum of the non-negative return values of read
    bbLast,           \* the last read call: size, result, path taken, state before
    fi,               \* fd_input_stream: buffer fields, flags, fdBlocking, err, buffer memory
    fiEnv,            \* its descriptor: bytes of the source, bytes delivered, O_NONBLOCK
    fiObs,            \* its caller: bytes received, the last call, a failed assertion
    fo,               \* fd_output_stream: buffer fields, flags, fdBlocking, err, buffer memory
    foEnv,            \* its descriptor: the bytes delivered to it, O_NONBLOCK
    foObs,            \* its caller: number of bytes reported accepted, the last call
    inc,              \* an incremental_reader or incremental_writer and its last step
    hd,               \* ring_spsc::handle: the shared indices and the data of both sides
    tb,               \* triple_buffer_spsc: the shared index word and both sides' steps
    era,              \* byte_buffer::erase on its own: the buffer before and after
    bos,              \* byte_buffer_output_stream: its buffer and fast path fields
    adv               \* io_vector_array_advance on its own: the array before and after

vars == <<paired, ringSize, ring, shared, efd, ostream, istream, pt, ct,
          sent, published, recv, released, aborted, pdone, fdOk, algN, algP, algC,
          algSide, algK, algPF, algCF, idxN, idxI, idxPrev, idxK,
          bbLen, bb, bbOut, bbSum, bbLast, fi, fiEnv, fiObs,
          fo, foEnv, foObs, inc, hd, tb, era, bos, adv>>

streamVars == <<paired, ringSize, ring, shared, efd, ostream, istream, pt, ct,
                sent, published, recv, released, aborted, pdone, fdOk>>

algVars == <<algN, algP, algC, algSide, algK, algPF, algCF>>

idxVars == <<idxN, idxI, idxPrev, idxK>>

(* the state of the parts that are exercised on their own *)
bufVars == <<bbLen, bb, bbOut, bbSum, bbLast>>

fiVars == <<fi, fiEnv, fiObs>>

foVars == <<fo, foEnv, foObs>>

fdVars == <<fiVars, foVars, inc>>

auxVars == <<hd, tb, era, bos, adv>>

sideVars == <<algVars, idxVars, bufVars, fdVars, auxVars>>

(* everything but auxVars *)
mainVars == <<streamVars, algVars, idxVars, bufVars, fdVars>>

StreamInit == [bufferOffset |-> 0, bufferSize |-> 0, statusFlags |-> 0,
               lastIndex |-> 0, segmentLimit |-> DefaultRingSegmentLimit]

SharedInit == [producer_index |-> 0, consumer_index |-> 0,
               producer_wake |-> FALSE, consumer_wake |-> TRUE, eos |-> FALSE]

ThreadIdle == [pc |-> "idle", call |-> "none", mode |-> "NonBlocking",
               wake |-> FALSE, stage |-> 0, left |-> 0, count |-> 0,
               win |-> 0, ret |-> 0, entryEnd |-> FALSE, entry |-> <<>>]

StreamVarsInit ==
    /\ paired = FALSE
    /\ ringSize = 0
    /\ ring = <<>>
    /\ shared = SharedInit
    /\ efd = 0
    /\ ostream = StreamInit
    /\ istream = StreamInit
    /\ pt = ThreadIdle
    /\ ct = ThreadIdle
    /\ sent = 0
    /\ published = 0
    /\ recv = <<>>
    /\ released = 0
    /\ aborted = "none"
    /\ pdone = FALSE
    /\ fdOk = TRUE

AlgVarsIdle ==
    /\ algN = 1 /\ algP = 0 /\ algC = 0
    /\ algSide = "none" /\ algK = 0 /\ algPF = 1 /\ algCF = 0

IdxVarsIdle == idxN = 1 /\ idxI = 0 /\ idxPrev = 0 /\ idxK = 0

(* abstract_stream_base: buffer_offset, buffer_available, status_flags *)
BaseInit == [bufferOffset |-> 0, bufferSize |-> 0, statusFlags |-> 0]

NoCall == [called |-> FALSE, size |-> 0, ret |-> 0, slow |-> FALSE, pre |-> BaseInit]

(* a byte_buffer_input_stream constructed over the empty range *)
BufVarsIdle ==
    /\ bbLen = 0 /\ bb = BaseInit /\ bbOut = <<>> /\ bbSum = 0 /\ bbLast = NoCall

(* fd_input_stream::set_descriptor on a stream over a buffer of cap bytes *)
fi_set_descriptor(cap, b) ==
    [cap |-> cap, bufferOffset |-> 0, bufferSize |-> 0, statusFlags |-> 0,
     fdBlocking |-> b, err |-> "ReadNoError", mem |-> [i \in 1..cap |-> 0]]

FdNoCall ==
    [call |-> "none", size |-> 0, iov |-> <<>>, required |-> 0, mode |-> "NonBlocking",
     ret |-> 0, kind |-> "none", fcntlFailed |-> FALSE,
     pre |-> fi_set_descriptor(0, "Unknown"), prePos |-> 0, preNonblock |-> FALSE]

(* an unbuffered fd_input_stream over a descriptor at its end *)
FiVarsIdle ==
    /\ fi = fi_set_descriptor(0, "Unknown")
    /\ fiEnv = [len |-> 0, pos |-> 0, nonblock |-> FALSE]
    /\ fiObs = [out |-> <<>>, config |-> "Unknown", abort |-> "none", last |-> FdNoCall]

(* fd_output_stream::set_descriptor on a stream over a buffer of cap bytes:
   reset_buffer() makes the whole buffer the window *)
fo_set_descriptor(cap, b) ==
    [cap |-> cap, bufferOffset |-> 0, bufferWriteOffset |-> 0, bufferSize |-> cap,
     statusFlags |-> 0, fdBlocking |-> b, err |-> "WriteNoError",
     mem |-> [i \in 1..cap |-> 0]]

FoNoCall ==
    [call |-> "none", size |-> 0, mode |-> "NonBlocking", ret |-> 0, kind |-> "none",
     pre |-> fo_set_descriptor(0, "Unknown"), preSink |-> <<>>]

(* an unbuffered fd_output_stream nothing was written to *)
FoVarsIdle ==
    /\ fo = fo_set_descriptor(0, "Unknown")
    /\ foEnv = [sink |-> <<>>, nonblock |-> FALSE]
    /\ foObs = [acc |-> 0, last |-> FoNoCall]

(* a default constructed incremental_reader: left = 0 *)
IncIdle ==
    [side |-> "none", n |-> 0, left |-> 0, position |-> 0, dst |-> <<>>,
     stepped |-> FALSE, c |-> 0, ret |-> FALSE, preLeft |-> 0, prePosition |-> 0,
     preError |-> FALSE]

(* a default constructed producer and consumer: no buffer, indices 0 *)
HdIdle ==
    [n |-> 0, shared_producer_index |-> 0, shared_consumer_index |-> 0,
     producer |-> [local_producer_index |-> 0, local_consumer_index |-> 0],
     consumer |-> [local_producer_index |-> 0, local_consumer_index |-> 0],
     filled |-> {}, last |-> "none", k |-> 0]

(* a default constructed triple_buffer_spsc, no swap running *)
TbIdle ==
    [producer_idx |-> 0, consumer_idx |-> 1, idle_idx |-> 2,
     buffer |-> [i \in 0..2 |-> 0],
     ppc |-> "idle", pret |-> 0, cpc |-> "idle", cret |-> 0,
     run |-> FALSE, seen |-> 0]

(* a default constructed byte_buffer: the small representation, size 0 *)
ByteBufferInit ==
    [small |-> TRUE, small_size |-> 0, small_data |-> [j \in 1..SmallResered |-> 0],
     ext_size |-> 0, ext_data |-> <<>>]

EraIdle ==
    [st |-> "idle", b |-> ByteBufferInit, little |-> TRUE, index |-> 0, count |-> 0,
     pre |-> <<>>]

BosNoCall == [op |-> "none", size |-> 0, ret |-> 0, slow |-> FALSE, preFlags |-> 0,
              expect |-> <<>>]

(* a default constructed byte_buffer_output_stream, before sync_state *)
BosIdle ==
    [buffer |-> ByteBufferInit, buffer_offset |-> 0, buffer_available |-> 0,
     status_flags |-> 0, accepted |-> <<>>, last |-> BosNoCall]

AdvIdle == [st |-> "idle", orig |-> <<>>, size |-> 0, array |-> <<>>, i |-> 0]

AuxVarsIdle ==
    /\ hd = HdIdle
    /\ tb = TbIdle
    /\ era = EraIdle
    /\ bos = BosIdle
    /\ adv = AdvIdle

FdVarsIdle ==
    /\ FiVarsIdle
    /\ FoVarsIdle
    /\ inc = IncIdle

Init ==
    /\ StreamVarsInit
    /\ AuxVarsIdle
    /\ AlgVarsIdle
    /\ IdxVarsIdle
    /\ BufVarsIdle
    /\ FdVarsIdle

(* assert(cond): when cond is false a build without NDEBUG aborts the process,
   a build with NDEBUG carries on *)
Running == aborted = "none"

AbortUnless(cond, name) == IF cond THEN {"none"} ELSE {"none", name}

(* --------------------------- stream helpers ---------------------------- *)
(* mutant: advance shrinks the window but leaves its offset where it was *)
advance_keeps_offset(s, count) == [s EXCEPT !.bufferSize = @ - count]

advance(s, count) == [s EXCEPT !.bufferOffset = @ + count, !.bufferSize = @ - count]

set_segment_size_limit(s, limit) ==
    [s EXCEPT !.segmentLimit = IF limit > 0 THEN limit ELSE 1]

(* mutant: the producer's window is not cut at the end of the ring memory *)
out_update_buffer_size_nowrap(s, consumer_index, producer_index, segmentLimit, n) ==
    LET b == producer_free_slots(producer_index, consumer_index, n)
        size == Min(segmentLimit, b)
    IN [s EXCEPT !.bufferSize = size,
                 !.statusFlags = IF size > 0 THEN StatusBufferReady ELSE 0]

(* output_stream::update_buffer_size: the window for a loaded consumer_index *)
out_update_buffer_size(s, consumer_index, producer_index, segmentLimit, n) ==
    LET b == continuous_slots(offset(producer_index, n),
                              producer_free_slots(producer_index, consumer_index, n), n)
        size == Min(segmentLimit, b)
    IN [s EXCEPT !.bufferSize = size,
                 !.statusFlags = IF size > 0 THEN StatusBufferReady ELSE 0]

(* mutant: the consumer takes its window from the free slots of the producer *)
in_update_buffer_size_free(s, producer_index, consumer_index, segmentLimit, n) ==
    LET b == continuous_slots(offset(consumer_index, n),
                              producer_free_slots(producer_index, consumer_index, n), n)
        size == Min(segmentLimit, b)
    IN [s EXCEPT !.bufferSize = size,
                 !.statusFlags = IF size > 0 THEN StatusBufferReady ELSE 0]

(* input_stream::update_buffer_size up to the load of eos *)
in_update_buffer_size(s, producer_index, consumer_index, segmentLimit, n) ==
    LET b == continuous_slots(offset(consumer_index, n),
                              consumer_free_slots(producer_index, consumer_index, n), n)
        size == Min(segmentLimit, b)
    IN [s EXCEPT !.bufferSize = size,
                 !.statusFlags = IF size > 0 THEN StatusBufferReady ELSE 0]

out_reset(s, n, sh) ==
    LET last == sh.producer_index
        s1 == [s EXCEPT !.lastIndex = last, !.bufferOffset = offset(last, n)]
    IN out_update_buffer_size(s1, sh.consumer_index, last, s1.segmentLimit, n)

in_reset(s, n, sh) ==
    LET last == sh.consumer_index
        s1 == [s EXCEPT !.lastIndex = last, !.bufferOffset = offset(last, n)]
        s2 == in_update_buffer_size(s1, sh.producer_index, last, s1.segmentLimit, n)
    IN IF s2.bufferSize = 0 /\ sh.eos
       THEN [s2 EXCEPT !.statusFlags = StatusEndOfStream] ELSE s2

(* ring_spsc::pair_streams on a fresh shared record and a buffer of n bytes *)
PairStreams(n, segment_limit) ==
    /\ ~paired
    /\ paired' = TRUE
    /\ ringSize' = n
    /\ ring' = [i \in 0..(n-1) |-> 0]
    /\ ostream' = set_segment_size_limit(out_reset(ostream, n, shared), segment_limit)
    /\ istream' = set_segment_size_limit(in_reset(istream, n, shared), segment_limit)
    /\ UNCHANGED <<shared, efd, pt, ct, sent, published, recv, released, aborted, fdOk>>
    /\ UNCHANGED sideVars

(* memcpy into / out of the ring memory *)
WriteCells(r, off, k, first) ==
    [i \in DOMAIN r |-> IF off <= i /\ i < off + k THEN first + (i - off) ELSE r[i]]

ReadCells(r, off, k) == [j \in 1..k |-> r[off + j - 1]]

(* a slow path call has returned ret to its caller *)
Done(t, ret) == [t EXCEPT !.pc = "done", !.wake = FALSE, !.stage = 0, !.left = 0,
                          !.count = 0, !.win = 0, !.ret = ret]

Call(call, mode, pc) == [ThreadIdle EXCEPT !.call = call, !.mode = mode, !.pc = pc]

(* the point a next_buffer call returns to, with the size of the returned array *)
Return(t, size, flags) ==
    IF t.call \in {"write", "read"}
    THEN [t EXCEPT !.pc = "copy", !.win = size, !.wake = FALSE, !.stage = 0]
    ELSE Done(t, IF t.call = "flush" THEN (IF has_error(flags) THEN 0 ELSE 1) ELSE size)

PUnchanged ==
    UNCHANGED <<paired, ringSize, istream, ct, recv, released, fdOk>> /\ UNCHANGED sideVars

(* what the caller of write finds when the shared indices show a full ring (no
   free slot for the producer): the indices, the bytes released so far, the
   event counter and the status flags of the stream *)
FullRingAtEntry ==
    IF producer_free_slots(shared.producer_index, shared.consumer_index, ringSize) = 0
    THEN <<shared.producer_index, shared.consumer_index, released, efd,
           ostream.statusFlags>>
    ELSE <<>>

(* ===================== producer: ring_spsc::output_stream =============== *)

(* mutant: only the Error flag closes the stream for further calls *)
out_closed_on_error(s) == has_error(s.statusFlags)

(* if( statusFlags ): the output stream is in error or at end of stream *)
out_closed(s) == s.statusFlags # 0

(* abstract_output_stream::write, and write_stream up to its first next_buffer *)
P_Write(k, mode) ==
    /\ paired /\ Running /\ pt.pc = "idle"
    /\ sent + k <= MaxBytes
    /\ IF ostream.bufferSize >= k /\ ostream.bufferSize > 0
       THEN /\ ring' = WriteCells(ring, ostream.bufferOffset, k, sent + 1)
            /\ ostream' = advance(ostream, k)
            /\ sent' = sent + k
            /\ UNCHANGED <<pt, aborted>>
       ELSE IF out_closed(ostream)
       THEN /\ ostream' = [ostream EXCEPT !.statusFlags = OrBit(@, StatusError)]
            /\ pt' = Done([Call("write", mode, "idle") EXCEPT !.entry = FullRingAtEntry], -1)
            /\ UNCHANGED <<ring, sent, aborted>>
       ELSE LET count == ostream.bufferSize IN
            /\ aborted' \in IF k > 0 THEN AbortUnless(count < k, "write_stream:count<size")
                                     ELSE AbortUnless(count = 0, "write_stream:count==0")
            /\ IF k > 0 /\ count > 0
               THEN /\ ring' = WriteCells(ring, ostream.bufferOffset, count, sent + 1)
                    /\ ostream' = advance(ostream, ostream.bufferSize)
                    /\ sent' = sent + count
               ELSE UNCHANGED <<ring, ostream, sent>>
            /\ pt' = [Call("write", IF k > 0 THEN mode ELSE "NonBlocking", "nb_publish")
                        EXCEPT !.left = IF k > 0 THEN k - count ELSE 0,
                               !.count = count, !.entry = FullRingAtEntry]
    /\ UNCHANGED <<shared, efd, published>>
    /\ PUnchanged

(* the loop body of write_stream after next_buffer has returned *)
P_WriteCopy ==
    /\ Running /\ pt.pc = "copy" /\ pt.call = "write"
    /\ IF pt.win = 0
       THEN /\ pt' = Done(pt, IF has_error(ostream.statusFlags) THEN -1 ELSE pt.count)
            /\ UNCHANGED <<ring, ostream, sent>>
       ELSE IF pt.win >= pt.left
       THEN /\ ring' = WriteCells(ring, ostream.bufferOffset, pt.left, sent + 1)
            /\ ostream' = advance(ostream, pt.left)
            /\ sent' = sent + pt.left
            /\ pt' = Done(pt, pt.count + pt.left)
       ELSE /\ ring' = WriteCells(ring, ostream.bufferOffset, pt.win, sent + 1)
            /\ ostream' = advance(ostream, ostream.bufferSize)
            /\ sent' = sent + pt.win
            /\ pt' = [pt EXCEPT !.pc = "nb_publish", !.count = @ + pt.win,
                                !.left = @ - pt.win, !.win = 0]
    /\ UNCHANGED <<shared, efd, published, aborted>>
    /\ PUnchanged

(* abstract_output_stream::get_buffer with an empty window: get_write_buffer *)
P_GetBuffer(mode) ==
    /\ paired /\ Running /\ pt.pc = "idle"
    /\ ostream.bufferSize = 0
    /\ pt' = Call("get", mode, "nb_publish")
    /\ UNCHANGED <<ring, shared, efd, ostream, sent, published, aborted>>
    /\ PUnchanged

(* get_buffer with a window left returns it as it is; the caller fills k bytes
   of it and calls advance_buffer(k) *)
P_AdvanceBuffer(k) ==
    /\ paired /\ Running /\ pt.pc = "idle"
    /\ k >= 1 /\ k <= ostream.bufferSize
    /\ sent + k <= MaxBytes
    /\ ring' = WriteCells(ring, ostream.bufferOffset, k, sent + 1)
    /\ ostream' = advance(ostream, k)
    /\ sent' = sent + k
    /\ UNCHANGED <<pt, shared, efd, published, aborted>>
    /\ PUnchanged

(* abstract_output_stream::flush_buffer -> write_buffer_flush *)
P_FlushBuffer(mode) ==
    /\ paired /\ Running /\ pt.pc = "idle"
    /\ pt' = Call("flush", "NonBlocking", "nb_publish")
    /\ UNCHANGED <<ring, shared, efd, ostream, sent, published, aborted>>
    /\ PUnchanged

(* output_stream::next_buffer: entry, status check and the store of producer_index *)
P_Publish ==
    /\ Running /\ pt.pc = "nb_publish"
    /\ IF out_closed(ostream)
       THEN /\ aborted' \in AbortUnless(ostream.bufferSize = 0, "out.next_buffer:bufferSize==0")
            /\ ostream' = [ostream EXCEPT !.statusFlags = OrBit(@, StatusError)]
            /\ pt' = Return(pt, 0, OrBit(ostream.statusFlags, StatusError))
            /\ UNCHANGED <<shared, published>>
       ELSE LET n == ringSize
                count == ostream.bufferOffset - offset(ostream.lastIndex, n)
                producerIdx == new_index(ostream.lastIndex, count, n)
            IN /\ shared' = [shared EXCEPT !.producer_index = producerIdx]
               /\ ostream' = [ostream EXCEPT !.lastIndex = producerIdx,
                                             !.bufferOffset = offset(producerIdx, n)]
               /\ published' = published + count
               /\ pt' = [pt EXCEPT !.wake = count > 0, !.stage = 1,
                                   !.pc = IF count > 0 THEN "nb_cas" ELSE "chk"]
               /\ UNCHANGED aborted
    /\ UNCHANGED <<ring, efd, sent>>
    /\ PUnchanged

(* mutant: the producer signals the event counter after every publish of
   count > 0, whatever consumer_wake holds *)
P_Cas_signals ==
    /\ Running /\ pt.pc = "nb_cas"
    /\ shared' = [shared EXCEPT !.consumer_wake = FALSE]
    /\ pt' = [pt EXCEPT !.pc = "efd"]
    /\ UNCHANGED <<ring, efd, ostream, sent, published, aborted>>
    /\ PUnchanged

(* consumer_wake.compare_exchange_strong(wakeConsumer, false) *)
P_Cas ==
    /\ Running /\ pt.pc = "nb_cas"
    /\ IF shared.consumer_wake
       THEN /\ shared' = [shared EXCEPT !.consumer_wake = FALSE]
            /\ pt' = [pt EXCEPT !.pc = "efd"]
       ELSE /\ pt' = [pt EXCEPT !.wake = FALSE, !.pc = "chk"]
            /\ UNCHANGED shared
    /\ UNCHANGED <<ring, efd, ostream, sent, published, aborted>>
    /\ PUnchanged

(* producer_write: event_fd::write(fd, MaximumValue) fills the counter; on a
   counter that is not zero it would block, which counts as success *)
producer_write(e) == 1

(* event_fd::write(fd, MaximumValue) on a counter of value e *)
event_write_status(e, ok) ==
    IF ~ok THEN "WriteBadFd" ELSE IF e = 0 THEN "WriteNoError" ELSE "WriteWouldBlock"

(* mutant: producer_write takes a counter that would block for a failure *)
producer_write_strict(status) == status = "WriteNoError"

(* producer_write: the statuses it returns true for *)
producer_write_ok(status) == status \in {"WriteNoError", "WriteWouldBlock"}

(* mutant: the error exit empties the window but does not set the flag *)
out_error_silent(s) == [s EXCEPT !.bufferSize = 0]

(* output_stream::next_buffer, label error *)
out_error(s) == [s EXCEPT !.statusFlags = StatusError, !.bufferSize = 0]

(* the stage of the update_buffer_size that follows an event counter call *)
AfterEvent(t) == IF t.stage = 1 /\ t.wake THEN 1 ELSE t.stage + 1

P_EventWrite ==
    /\ Running /\ pt.pc = "efd"
    /\ IF producer_write_ok(event_write_status(efd, fdOk))
       THEN /\ efd' = producer_write(efd)
            /\ pt' = [pt EXCEPT !.pc = "chk", !.stage = AfterEvent(pt)]
            /\ UNCHANGED ostream
       ELSE /\ ostream' = out_error(ostream)
            /\ pt' = Return(pt, 0, StatusError)
            /\ UNCHANGED efd
    /\ UNCHANGED <<ring, shared, sent, published, aborted>>
    /\ PUnchanged

(* where next_buffer goes on when update_buffer_size has returned false:
   stage 1 is the check after the publish, 2 the one after the unconditional
   event counter call, 3 the one after arming the own wake flag, 4 and 6 the
   ones after the waits, 5 the one after the event counter call in between *)
AfterEmpty(t) ==
    CASE t.stage = 1 /\ ~t.wake -> "efd"
      [] t.stage = 1 /\ t.wake -> "arm"
      [] t.stage = 2 -> "arm"
      [] t.stage = 3 -> "wait"
      [] t.stage = 4 -> "efd"
      [] t.stage = 5 -> "wait"

(* update_buffer_size and the branch that follows it at each place of next_buffer *)
P_Check ==
    /\ Running /\ pt.pc = "chk"
    /\ LET o == out_update_buffer_size(ostream, shared.consumer_index, ostream.lastIndex,
                                       ostream.segmentLimit, ringSize)
           found == o.bufferSize > 0
       IN /\ ostream' = o
          /\ IF found \/ (pt.stage = 3 /\ pt.mode = "NonBlocking") \/ pt.stage = 6
             THEN pt' = Return(pt, o.bufferSize, o.statusFlags)
             ELSE pt' = [pt EXCEPT !.pc = AfterEmpty(pt)]
          /\ aborted' \in IF pt.stage = 6
                          THEN AbortUnless(found, "out.next_buffer:assert(false)")
                          ELSE {"none"}
    /\ UNCHANGED <<ring, shared, efd, sent, published>>
    /\ PUnchanged

(* s->producer_wake.store(true) *)
P_Arm ==
    /\ Running /\ pt.pc = "arm"
    /\ shared' = [shared EXCEPT !.producer_wake = TRUE]
    /\ pt' = [pt EXCEPT !.pc = "chk", !.stage = 3]
    /\ UNCHANGED <<ring, efd, ostream, sent, published, aborted>>
    /\ PUnchanged

(* mutant: the producer waits for the counter to become readable *)
WriteReady_readable(e) == e # 0

(* poll::wait_for_event(fd, FlagsWriteReady): the counter accepts a write *)
WriteReady(e) == e = 0

(* the wait returns false when poll fails or reports an error condition of
   the descriptor instead of the requested event *)
P_Wait ==
    /\ Running /\ pt.pc = "wait"
    /\ IF fdOk
       THEN /\ WriteReady(efd)
            /\ pt' = [pt EXCEPT !.pc = "chk", !.stage = @ + 1]
            /\ UNCHANGED ostream
       ELSE /\ ostream' = out_error(ostream)
            /\ pt' = Return(pt, 0, StatusError)
    /\ UNCHANGED <<ring, shared, efd, sent, published, aborted>>
    /\ PUnchanged

(* output_stream::set_end_of_stream, one step per access to shared state *)
P_SetEndOfStream ==
    /\ paired /\ Running /\ pt.pc = "idle"
    /\ IF out_closed(ostream)
       THEN /\ pt' = Done(Call("eos", "NonBlocking", "idle"), 0)
            /\ UNCHANGED <<shared, ostream, published>>
       ELSE LET n == ringSize
                count == ostream.bufferOffset - offset(ostream.lastIndex, n)
                producerIdx == new_index(ostream.lastIndex, count, n)
            IN /\ shared' = [shared EXCEPT !.producer_index = producerIdx]
               /\ ostream' = [ostream EXCEPT !.bufferSize = 0]
               /\ published' = published + count
               /\ pt' = Call("eos", "NonBlocking", "eos_store")
    /\ UNCHANGED <<ring, efd, sent, aborted>>
    /\ PUnchanged

P_EosStore ==
    /\ Running /\ pt.pc = "eos_store"
    /\ shared' = [shared EXCEPT !.eos = TRUE]
    /\ pt' = [pt EXCEPT !.pc = "eos_signal"]
    /\ UNCHANGED <<ring, efd, ostream, sent, published, aborted>>
    /\ PUnchanged

(* mutant: set_end_of_stream signals but does not mark the stream itself *)
P_EosSignal_unmarked ==
    /\ Running /\ pt.pc = "eos_signal"
    /\ efd' = producer_write(efd)
    /\ pt' = Done(pt, 1)
    /\ UNCHANGED <<ring, shared, ostream, sent, published, aborted>>
    /\ PUnchanged

(* set_end_of_stream: the signal to the consumer and the EndOfStream status *)
P_EosSignal ==
    /\ Running /\ pt.pc = "eos_signal"
    /\ IF producer_write_ok(event_write_status(efd, fdOk))
       THEN /\ efd' = producer_write(efd)
            /\ ostream' = [ostream EXCEPT !.statusFlags = StatusEndOfStream]
            /\ pt' = Done(pt, 1)
       ELSE /\ ostream' = [ostream EXCEPT !.statusFlags = StatusError]
            /\ pt' = Done(pt, 0)
            /\ UNCHANGED efd
    /\ UNCHANGED <<ring, shared, sent, published, aborted>>
    /\ PUnchanged

(* the caller has the result of its call *)
P_Done ==
    /\ Running /\ pt.pc = "done"
    /\ pt' = ThreadIdle
    /\ UNCHANGED <<ring, shared, efd, ostream, sent, published, aborted>>
    /\ PUnchanged

CUnchanged == UNCHANGED <<paired, ringSize, ring, ostream, pt, sent, published, fdOk>>
              /\ UNCHANGED sideVars

(* ===================== consumer: ring_spsc::input_stream ================ *)

(* abstract_input_stream::read, and read_stream up to its first next_buffer *)
C_Read(k, mode) ==
    /\ paired /\ Running /\ ct.pc = "idle"
    /\ Len(recv) <= MaxBytes
    /\ IF istream.bufferSize >= k /\ istream.bufferSize > 0
       THEN /\ recv' = recv \o ReadCells(ring, istream.bufferOffset, k)
            /\ istream' = advance(istream, k)
            /\ UNCHANGED ct
       ELSE /\ ct' = [Call("read", IF k > 0 /\ mode = "Blocking"
                                   THEN "Blocking" ELSE "NonBlocking", "nb_publish")
                        EXCEPT !.left = k, !.entryEnd = at_end(istream.statusFlags)]
            /\ UNCHANGED <<recv, istream>>
    /\ UNCHANGED <<shared, efd, aborted>>
    /\ UNCHANGED released /\ CUnchanged

(* the loop body of read_stream after next_buffer has returned *)
C_ReadCopy ==
    /\ Running /\ ct.pc = "copy" /\ ct.call = "read"
    /\ IF ct.win = 0
       THEN /\ ct' = Done(ct, IF has_error(istream.statusFlags) THEN -1 ELSE ct.count)
            /\ UNCHANGED <<recv, istream>>
       ELSE IF ct.win >= ct.left
       THEN /\ recv' = recv \o ReadCells(ring, istream.bufferOffset, ct.left)
            /\ istream' = advance(istream, ct.left)
            /\ ct' = Done(ct, ct.count + ct.left)
       ELSE /\ recv' = recv \o ReadCells(ring, istream.bufferOffset, ct.win)
            /\ istream' = advance(istream, istream.bufferSize)
            /\ ct' = [ct EXCEPT !.pc = "nb_publish", !.count = @ + ct.win,
                                !.left = @ - ct.win, !.win = 0]
    /\ UNCHANGED <<shared, efd, aborted>>
    /\ UNCHANGED released /\ CUnchanged

(* abstract_input_stream::get_buffer with an empty window: get_read_buffer *)
C_GetBuffer(mode) ==
    /\ paired /\ Running /\ ct.pc = "idle"
    /\ istream.bufferSize = 0
    /\ ct' = [Call("get", mode, "nb_publish")
                EXCEPT !.entryEnd = at_end(istream.statusFlags)]
    /\ UNCHANGED <<shared, efd, istream, recv, aborted>>
    /\ UNCHANGED released /\ CUnchanged

(* get_buffer with a window left returns it as it is; the caller takes k bytes
   out of it and calls advance_buffer(k) *)
C_AdvanceBuffer(k) ==
    /\ paired /\ Running /\ ct.pc = "idle"
    /\ k >= 1 /\ k <= istream.bufferSize
    /\ Len(recv) <= MaxBytes
    /\ recv' = recv \o ReadCells(ring, istream.bufferOffset, k)
    /\ istream' = advance(istream, k)
    /\ UNCHANGED <<ct, shared, efd, aborted>>
    /\ UNCHANGED released /\ CUnchanged

(* input_stream::next_buffer: entry assertion, status check, store of consumer_index *)
C_Publish ==
    /\ Running /\ ct.pc = "nb_publish"
    /\ aborted' \in AbortUnless(istream.bufferSize = 0, "in.next_buffer:bufferSize==0")
    /\ IF istream.statusFlags # 0
       THEN /\ istream' = IF ct.mode = "Blocking"
                          THEN [istream EXCEPT !.statusFlags = OrBit(@, StatusError)]
                          ELSE istream
            /\ ct' = Return(ct, 0, 0)
            /\ UNCHANGED <<shared, released>>
       ELSE LET n == ringSize
                count == istream.bufferOffset - offset(istream.lastIndex, n)
                consumerIdx == new_index(istream.lastIndex, count, n)
            IN /\ shared' = [shared EXCEPT !.consumer_index = consumerIdx]
               /\ istream' = [istream EXCEPT !.lastIndex = consumerIdx,
                                             !.bufferOffset = offset(consumerIdx, n)]
               /\ released' = released + count
               /\ ct' = [ct EXCEPT !.wake = count > 0, !.stage = 1,
                                   !.pc = IF count > 0 THEN "nb_cas" ELSE "chk"]
    /\ UNCHANGED <<efd, recv>>
    /\ CUnchanged

(* producer_wake.compare_exchange_strong(wakeProducer, false) *)
C_Cas ==
    /\ Running /\ ct.pc = "nb_cas"
    /\ IF shared.producer_wake
       THEN /\ shared' = [shared EXCEPT !.producer_wake = FALSE]
            /\ ct' = [ct EXCEPT !.pc = "efd"]
       ELSE /\ ct' = [ct EXCEPT !.wake = FALSE, !.pc = "chk"]
            /\ UNCHANGED shared
    /\ UNCHANGED <<efd, istream, recv, aborted>>
    /\ UNCHANGED released /\ CUnchanged

(* consumer_read: event_fd::read(fd, &v) resets the counter; on a counter that
   is zero it would block, which counts as success *)
consumer_read(e) == 0

(* event_fd::read(fd, &v) on a counter of value e *)
event_read_status(e, ok) ==
    IF ~ok THEN "ReadBadFd" ELSE IF e # 0 THEN "ReadNoError" ELSE "ReadWouldBlock"

(* consumer_read: the statuses it returns true for *)
consumer_read_ok(status) == status \in {"ReadNoError", "ReadWouldBlock"}

(* input_stream::next_buffer, label error *)
in_error(s) == [s EXCEPT !.statusFlags = StatusError]

C_EventRead ==
    /\ Running /\ ct.pc = "efd"
    /\ IF consumer_read_ok(event_read_status(efd, fdOk))
       THEN /\ efd' = consumer_read(efd)
            /\ ct' = [ct EXCEPT !.pc = "chk", !.stage = AfterEvent(ct)]
            /\ UNCHANGED istream
       ELSE /\ istream' = in_error(istream)
            /\ ct' = Return(ct, 0, StatusError)
            /\ UNCHANGED efd
    /\ UNCHANGED <<shared, recv, aborted>>
    /\ UNCHANGED released /\ CUnchanged

(* update_buffer_size: the acquire load of producer_index and the new window *)
C_Check ==
    /\ Running /\ ct.pc = "chk"
    /\ LET i == in_update_buffer_size(istream, shared.producer_index, istream.lastIndex,
                                      istream.segmentLimit, ringSize)
       IN /\ istream' = i
          /\ IF i.bufferSize > 0
             THEN ct' = Return(ct, i.bufferSize, i.statusFlags)
             ELSE ct' = [ct EXCEPT !.pc = "chk_eos"]
    /\ UNCHANGED <<shared, efd, recv, aborted>>
    /\ UNCHANGED released /\ CUnchanged

(* update_buffer_size: the load of eos after an empty window, and the branch
   that follows the update at each place of next_buffer *)
C_CheckEos ==
    /\ Running /\ ct.pc = "chk_eos"
    /\ IF shared.eos
       THEN /\ istream' = [istream EXCEPT !.statusFlags = StatusEndOfStream]
            /\ ct' = Return(ct, 0, StatusEndOfStream)
            /\ UNCHANGED aborted
       ELSE /\ UNCHANGED istream
            /\ IF (ct.stage = 3 /\ ct.mode = "NonBlocking") \/ ct.stage = 6
               THEN ct' = Return(ct, 0, 0)
               ELSE ct' = [ct EXCEPT !.pc = AfterEmpty(ct)]
            /\ aborted' \in IF ct.stage = 6
                            THEN AbortUnless(FALSE, "in.next_buffer:assert(false)")
                            ELSE {"none"}
    /\ UNCHANGED <<shared, efd, recv>>
    /\ UNCHANGED released /\ CUnchanged

(* s->consumer_wake.store(true) *)
C_Arm ==
    /\ Running /\ ct.pc = "arm"
    /\ shared' = [shared EXCEPT !.consumer_wake = TRUE]
    /\ ct' = [ct EXCEPT !.pc = "chk", !.stage = 3]
    /\ UNCHANGED <<efd, istream, recv, aborted>>
    /\ UNCHANGED released /\ CUnchanged

(* mutant: the wait returns without an event *)
ReadReady_spurious(e) == TRUE

(* poll::wait_for_event(fd, FlagsReadReady): the counter is not zero *)
ReadReady(e) == e # 0

C_Wait ==
    /\ Running /\ ct.pc = "wait"
    /\ IF fdOk
       THEN /\ ReadReady(efd)
            /\ ct' = [ct EXCEPT !.pc = "chk", !.stage = @ + 1]
            /\ UNCHANGED istream
       ELSE /\ istream' = in_error(istream)
            /\ ct' = Return(ct, 0, StatusError)
    /\ UNCHANGED <<shared, efd, recv, aborted>>
    /\ UNCHANGED released /\ CUnchanged

(* the caller has the result of its call *)
C_Done ==
    /\ Running /\ ct.pc = "done"
    /\ ct' = ThreadIdle
    /\ UNCHANGED <<shared, efd, istream, recv, aborted>>
    /\ UNCHANGED released /\ CUnchanged

(* ============================ specification ============================= *)
ProducerCall ==
    \/ \E k \in 0..MaxChunk, mode \in Modes : P_Write(k, mode)
    \/ \E mode \in Modes : P_GetBuffer(mode)
    \/ \E k \in 1..MaxChunk : P_AdvanceBuffer(k)
    \/ \E mode \in Modes : P_FlushBuffer(mode)
    \/ P_SetEndOfStream

ProducerStep ==
    \/ P_WriteCopy \/ P_Publish \/ P_Cas \/ P_EventWrite \/ P_Check \/ P_Arm \/ P_Wait
    \/ P_EosStore \/ P_EosSignal \/ P_Done

ConsumerCall ==
    \/ \E k \in 0..MaxChunk, mode \in Modes : C_Read(k, mode)
    \/ \E mode \in Modes : C_GetBuffer(mode)
    \/ \E k \in 1..MaxChunk : C_AdvanceBuffer(k)

ConsumerStep ==
    \/ C_ReadCopy \/ C_Publish \/ C_Cas \/ C_EventRead \/ C_Check \/ C_CheckEos
    \/ C_Arm \/ C_Wait \/ C_Done

(* segment_limit 0 and 1 both give the limit 1 *)
Pair == \E n \in 1..MaxRing : \E limit \in 1..n : PairStreams(n, limit)

(* any sequence of public calls on either stream, in any interleaving *)
Next ==
    /\ Pair \/ ProducerCall \/ ProducerStep \/ ConsumerCall \/ ConsumerStep
    /\ UNCHANGED pdone

Spec == Init /\ [][Next]_vars

TypeOK ==
    /\ efd \in 0..1
    /\ sent \in 0..MaxBytes /\ published \in 0..sent
    /\ pt.stage \in 0..6 /\ ct.stage \in 0..6

(* ========== scenario: Blocking writes, one flush, Blocking reads ======== *)
(* The producer program of the RingStream benchmark: Blocking writes until all
   MaxBytes bytes are in the stream, then one flush_buffer.  The consumer
   program (Thread_RingStream): Blocking reads until it has all the bytes, in
   chunks that are served from the window or start at an empty window. *)
L_Write == \E k \in 1..MaxChunk : P_Write(k, "Blocking") /\ ~pdone /\ UNCHANGED pdone

L_Flush ==
    /\ P_FlushBuffer("Blocking")
    /\ sent = MaxBytes /\ ~pdone
    /\ pdone' = TRUE

L_Read ==
    \E k \in 1..MaxChunk :
        /\ C_Read(k, "Blocking")
        /\ Len(recv) + k <= MaxBytes
        /\ istream.bufferSize = 0 \/ k <= istream.bufferSize
        /\ UNCHANGED pdone

L_Pair == Pair /\ UNCHANGED pdone

ProducerInner ==
    \/ P_WriteCopy \/ P_Publish \/ P_Cas \/ P_EventWrite \/ P_Check \/ P_Arm \/ P_Wait
    \/ P_Done

ConsumerInner ==
    \/ C_ReadCopy \/ C_Publish \/ C_Cas \/ C_EventRead \/ C_Check \/ C_CheckEos
    \/ C_Arm \/ C_Wait \/ C_Done

LiveProducer == L_Write \/ L_Flush \/ (ProducerInner /\ UNCHANGED pdone)
LiveConsumer == L_Read \/ (ConsumerInner /\ UNCHANGED pdone)

LiveNext == L_Pair \/ LiveProducer \/ LiveConsumer

(* both threads are scheduled again and again: weak fairness of each thread *)
LiveSpec ==
    /\ Init /\ [][LiveNext]_vars
    /\ WF_vars(L_Pair) /\ WF_vars(LiveProducer) /\ WF_vars(LiveConsumer)

(* ====== scenario: Blocking writes, set_end_of_stream, Blocking reads ==== *)
(* The producer writes MaxBytes bytes and ends the stream; the consumer reads
   one byte at a time, Blocking, until its stream is at end or in error. *)
E_SetEndOfStream ==
    /\ P_SetEndOfStream
    /\ sent = MaxBytes /\ ~pdone
    /\ pdone' = TRUE

E_Read ==
    /\ C_Read(1, "Blocking")
    /\ istream.statusFlags = 0 \/ istream.bufferSize > 0
    /\ UNCHANGED pdone

EosProducer ==
    \/ L_Write \/ E_SetEndOfStream
    \/ ((ProducerInner \/ P_EosStore \/ P_EosSignal) /\ UNCHANGED pdone)

EosConsumer == E_Read \/ (ConsumerInner /\ UNCHANGED pdone)

EosNext == L_Pair \/ EosProducer \/ EosConsumer

EosSpec ==
    /\ Init /\ [][EosNext]_vars
    /\ WF_vars(L_Pair) /\ WF_vars(EosProducer) /\ WF_vars(EosConsumer)

(* ============ the event counter descriptor may fail (FailSpec) ========== *)
(* the descriptor becomes unusable at some moment (it is closed, or poll
   reports an error condition for it) and stays so *)
FdFails ==
    /\ paired /\ Running /\ fdOk
    /\ fdOk' = FALSE
    /\ UNCHANGED <<paired, ringSize, ring, shared, efd, ostream, istream, pt, ct,
                   sent, published, recv, released, aborted, pdone>>
    /\ UNCHANGED sideVars

(* writes and reads of either mode, in any interleaving with the failure *)
FailCall ==
    \/ \E k \in 1..MaxChunk, mode \in Modes : P_Write(k, mode)
    \/ \E k \in 1..MaxChunk, mode \in Modes : C_Read(k, mode)

FailNext ==
    /\ Pair \/ FailCall \/ ProducerInner \/ ConsumerInner \/ FdFails
    /\ UNCHANGED pdone

FailSpec == Init /\ [][FailNext]_vars

(* ================== the ring algebra on its own (SpecAlg) =============== *)
(* the largest value of the index type: the type is taken just wide enough
   for the largest ring of the model, as uint32_t is for 2^31 - 1 *)
SizeTypeMax == 2*MaxAlgRing + 1

(* mutant: the limit of an index that is not mirrored *)
mirrored_index_max_size_full == SizeTypeMax

mirrored_index_max_size == SizeTypeMax \div 2

(* the ring size a stream uses for a buffer of the given byte size *)
reset_ring_size(bytes) == Min(bytes, mirrored_index_max_size)

(* the values the index arithmetic computes on the way to its result, as
   mathematical integers, in the order the expressions are evaluated *)
producer_free_slots_steps(p, c, n) ==
    IF p >= c THEN {p - c, n - (p - c)} ELSE {c - n, c - n - p}

consumer_free_slots_steps(p, c, n) ==
    IF c <= p THEN {p - c} ELSE {2*n, 2*n - c, 2*n - c + p}

new_index_steps(idx, cnt, n) ==
    {2*n, 2*n - idx} \cup
    (IF 2*n - idx > cnt THEN {idx + cnt}
                        ELSE {idx - n, idx - n + cnt, idx - n + cnt - n})

AlgInit ==
    /\ StreamVarsInit
    /\ AuxVarsIdle
    /\ IdxVarsIdle
    /\ BufVarsIdle
    /\ FdVarsIdle
    /\ \E bytes \in 1..SizeTypeMax : algN = reset_ring_size(bytes)
    /\ algP = 0
    /\ algC = 0
    /\ algSide = "none" /\ algK = 0
    /\ algPF = producer_free_slots(0, 0, algN)
    /\ algCF = consumer_free_slots(0, 0, algN)

(* the producer publishes k of its free slots *)
AlgProduce(k) ==
    /\ k >= 1 /\ k <= producer_free_slots(algP, algC, algN)
    /\ algP' = new_index(algP, k, algN)
    /\ algSide' = "producer" /\ algK' = k
    /\ algPF' = producer_free_slots(algP, algC, algN)
    /\ algCF' = consumer_free_slots(algP, algC, algN)
    /\ UNCHANGED <<algN, algC>>
    /\ UNCHANGED <<streamVars, auxVars, idxVars, bufVars, fdVars>>

(* the consumer releases k of the published slots *)
AlgConsume(k) ==
    /\ k >= 1 /\ k <= consumer_free_slots(algP, algC, algN)
    /\ algC' = new_index(algC, k, algN)
    /\ algSide' = "consumer" /\ algK' = k
    /\ algPF' = producer_free_slots(algP, algC, algN)
    /\ algCF' = consumer_free_slots(algP, algC, algN)
    /\ UNCHANGED <<algN, algP>>
    /\ UNCHANGED <<streamVars, auxVars, idxVars, bufVars, fdVars>>

AlgNext ==
    \/ \E k \in 1..MaxAlgRing : AlgProduce(k)
    \/ \E k \in 1..MaxAlgRing : AlgConsume(k)

SpecAlg == AlgInit /\ [][AlgNext]_vars

(* ================== new_index and offset on their own (SpecIdx) ========= *)
(* every ring size, every index in [0, 2N) *)
IdxInit ==
    /\ StreamVarsInit
    /\ AuxVarsIdle
    /\ AlgVarsIdle
    /\ BufVarsIdle
    /\ FdVarsIdle
    /\ idxN \in 1..MaxAlgRing
    /\ idxI \in 0..(2 * idxN - 1)
    /\ idxPrev = idxI
    /\ idxK = 0

(* new_index(idx, k, n) for a count k <= n *)
IdxAdvance(k) ==
    /\ k >= 0 /\ k <= idxN
    /\ idxI' = new_index(idxI, k, idxN)
    /\ idxPrev' = idxI
    /\ idxK' = k
    /\ UNCHANGED idxN
    /\ UNCHANGED <<streamVars, auxVars, algVars, bufVars, fdVars>>

IdxNext == \E k \in 0..MaxAlgRing : IdxAdvance(k)

SpecIdx == IdxInit /\ [][IdxNext]_vars

(* ============== byte_buffer_input_stream on its own (SpecBuf) =========== *)
(* byte i of the source range has the value i; the memory of the range is the
   internal buffer of the stream *)
SrcBytes(from, count) == [j \in 1..count |-> from + j]

(* byte_size() <= std::numeric_limits<uint32_t>::max() *)
fits_uint32(len) == len < OverUint32

(* byte_buffer_input_stream::reset over a range of len bytes *)
bb_reset(len) ==
    IF fits_uint32(len)
    THEN [bufferOffset |-> 0, bufferSize |-> len, statusFlags |-> 0]
    ELSE [bufferOffset |-> 0, bufferSize |-> 0, statusFlags |-> StatusError]

(* the sources: every length up to MaxSrc, and one range too large for the
   32 bit buffer_available *)
BufInit ==
    /\ StreamVarsInit
    /\ AuxVarsIdle
    /\ AlgVarsIdle
    /\ IdxVarsIdle
    /\ FdVarsIdle
    /\ bbLen \in (0..MaxSrc) \cup {OverUint32}
    /\ bb = bb_reset(bbLen)
    /\ bbOut = <<>>
    /\ bbSum = 0
    /\ bbLast = NoCall

(* mutant: a read that fits the buffer exactly is sent to read_stream *)
fast_path_strict(s, size) == s.bufferSize > size

(* abstract_input_stream::read: buffer_available >= size && buffer_available > 0 *)
fast_path(s, size) == s.bufferSize >= size /\ s.bufferSize > 0

(* mutant: read_stream hands out the rest of the buffer and leaves it available *)
bb_read_stream_keep(s) ==
    IF has_error(s.statusFlags)
    THEN [stream |-> s, ret |-> -1, copied |-> 0]
    ELSE [stream |-> [s EXCEPT !.statusFlags = StatusEndOfStream],
          ret |-> s.bufferSize, copied |-> s.bufferSize]

(* byte_buffer_input_stream::read_stream: the stream after the call, the
   result and the number of bytes copied from buffer_offset on *)
bb_read_stream(s) ==
    IF has_error(s.statusFlags)
    THEN [stream |-> s, ret |-> -1, copied |-> 0]
    ELSE [stream |-> [s EXCEPT !.bufferSize = 0, !.statusFlags = StatusEndOfStream],
          ret |-> s.bufferSize, copied |-> s.bufferSize]

(* abstract_input_stream::read(buf, size, mode) on the byte buffer stream *)
BB_Read(size, mode) ==
    /\ IF fast_path(bb, size)
       THEN /\ bb' = advance(bb, size)
            /\ bbOut' = bbOut \o SrcBytes(bb.bufferOffset, size)
            /\ bbSum' = bbSum + size
            /\ bbLast' = [called |-> TRUE, size |-> size, ret |-> size,
                          slow |-> FALSE, pre |-> bb]
       ELSE LET r == bb_read_stream(bb) IN
            /\ bb' = r.stream
            /\ bbOut' = bbOut \o SrcBytes(bb.bufferOffset, r.copied)
            /\ bbSum' = bbSum + (IF r.ret > 0 THEN r.ret ELSE 0)
            /\ bbLast' = [called |-> TRUE, size |-> size, ret |-> r.ret,
                          slow |-> TRUE, pre |-> bb]
    /\ UNCHANGED bbLen
    /\ UNCHANGED <<streamVars, auxVars, algVars, idxVars, fdVars>>

BufNext == \E size \in 0..MaxChunk, mode \in Modes : BB_Read(size, mode)

SpecBuf == BufInit /\ [][BufNext]_vars

(* ------ the byte buffer stream with its zero copy calls (SpecBufAll) ----- *)
(* byte_buffer_input_stream::get_read_buffer *)
bb_get_read_buffer(s) == [s EXCEPT !.statusFlags = StatusEndOfStream]

(* abstract_input_stream::get_buffer: the window, or get_read_buffer *)
BB_GetBuffer(mode) ==
    /\ bb' = IF bb.bufferSize > 0 THEN bb ELSE bb_get_read_buffer(bb)
    /\ bbLast' = [NoCall EXCEPT !.pre = bb]
    /\ UNCHANGED <<bbLen, bbOut, bbSum>>
    /\ UNCHANGED <<streamVars, auxVars, algVars, idxVars, fdVars>>

(* the caller takes count bytes out of the window: advance_buffer(count) *)
BB_AdvanceBuffer(count) ==
    /\ count >= 1 /\ count <= bb.bufferSize
    /\ bb' = advance(bb, count)
    /\ bbOut' = bbOut \o SrcBytes(bb.bufferOffset, count)
    /\ bbSum' = bbSum + count
    /\ bbLast' = [NoCall EXCEPT !.pre = bb]
    /\ UNCHANGED bbLen
    /\ UNCHANGED <<streamVars, auxVars, algVars, idxVars, fdVars>>

BufAllNext ==
    \/ \E size \in 0..MaxChunk, mode \in Modes : BB_Read(size, mode)
    \/ \E mode \in Modes : BB_GetBuffer(mode)
    \/ \E count \in 1..MaxChunk : BB_AdvanceBuffer(count)

SpecBufAll == BufInit /\ [][BufAllNext]_vars

(* ===================== fd_input_stream on its own (SpecFdIn) ============ *)
FdBlockingStates == {"Unknown", "Blocking", "NonBlocking"}

(* InternalBuffer::Yes iff the constructor was given a buffer *)
manages_buffer(s) == s.cap > 0

(* the lengths of the elements of an io_vector array *)
RECURSIVE io_vector_array_size_sum(_)
io_vector_array_size_sum(a) ==
    IF a = <<>> THEN 0 ELSE a[1] + io_vector_array_size_sum(Tail(a))

io_vector_array_has_zero_size(a) == \A i \in 1..Len(a) : a[i] = 0

RECURSIVE io_vector_array_advance(_, _)
io_vector_array_advance(a, size) ==
    IF size > 0 /\ a # <<>> /\ a[1] <= size
    THEN io_vector_array_advance(Tail(a), size - a[1])
    ELSE IF size > 0 /\ a # <<>>
    THEN <<a[1] - size>> \o Tail(a)
    ELSE a

(* update_blocking: fdBlocking and the descriptor's O_NONBLOCK after the call;
   ok is the result of fd::set_nonblock, if it is called *)
update_blocking(mode, block, nonblock, ok) ==
    LET want == IF mode = "Blocking" THEN "Blocking" ELSE "NonBlocking"
    IN IF block # want /\ ok
       THEN [block |-> want, nonblock |-> (mode = "NonBlocking")]
       ELSE [block |-> block, nonblock |-> nonblock]

(* update_blocking has called fd::set_nonblock and it has failed *)
set_nonblock_failed(mode, block, ok) ==
    block # (IF mode = "Blocking" THEN "Blocking" ELSE "NonBlocking") /\ ~ok

(* the bytes at offsets off .. off+count-1 of the buffer memory *)
MemBytes(mem, off, count) == [j \in 1..count |-> mem[off + j]]

(* the buffer memory after a system call has stored the bytes b at its start *)
MemStore(mem, b) == [i \in DOMAIN mem |-> IF i <= Len(b) THEN b[i] ELSE mem[i]]

(* the results one io::read or io::readv of req bytes can have on a descriptor
   that has delivered pos of its len bytes: a count, 0, EAGAIN or a failure *)
SysReadResults(req, env, pos) ==
    [kind : {"data"}, r : 1..Min(req, env.len - pos)]
    \cup (IF req = 0 \/ env.len = pos THEN {[kind |-> "eof", r |-> 0]} ELSE {})
    \cup (IF env.nonblock /\ req > 0 THEN {[kind |-> "again", r |-> -1]} ELSE {})
    \cup {[kind |-> "io", r |-> -1]}

(* the while( true ) loop of read_stream: the ways it can end, with the bytes
   counted so far and the array as it is then *)
RECURSIVE fi_readv_loop(_, _, _, _)
fi_readv_loop(required, iov, count, env) ==
    UNION { IF o.kind = "data" /\ count + o.r < required
            THEN fi_readv_loop(required, io_vector_array_advance(iov, o.r), count + o.r, env)
            ELSE {[kind |-> o.kind, count |-> count + (IF o.kind = "data" THEN o.r ELSE 0),
                   iov |-> iov]}
          : o \in SysReadResults(io_vector_array_size_sum(iov), env, env.pos + count) }

FiResult(s, pos, ret, bytes, kind) ==
    [stream |-> s, pos |-> pos, ret |-> ret, bytes |-> bytes, kind |-> kind]

FiError(s, e) == [s EXCEPT !.err = e, !.statusFlags = StatusError]

(* mutant: the bytes read past the request are reported to the caller as read *)
fi_read_data_all(s, c, fromBuf, firstReadRequest, got) ==
    IF manages_buffer(s) /\ c > firstReadRequest
    THEN [stream |-> [s EXCEPT !.bufferOffset = 0, !.bufferSize = c - firstReadRequest,
                               !.mem = MemStore(@, SubSeq(got, firstReadRequest + 1, c))],
          ret |-> c + Len(fromBuf),
          bytes |-> fromBuf \o SubSeq(got, 1, firstReadRequest)]
    ELSE [stream |-> s, ret |-> c + Len(fromBuf), bytes |-> fromBuf \o got]

(* read_stream, r > 0 and count >= required_read: what is past the first
   request has landed in the internal buffer and becomes the new window *)
fi_read_data(s, c, fromBuf, firstReadRequest, got) ==
    IF manages_buffer(s) /\ c > firstReadRequest
    THEN [stream |-> [s EXCEPT !.bufferOffset = 0, !.bufferSize = c - firstReadRequest,
                               !.mem = MemStore(@, SubSeq(got, firstReadRequest + 1, c))],
          ret |-> firstReadRequest + Len(fromBuf),
          bytes |-> fromBuf \o SubSeq(got, 1, firstReadRequest)]
    ELSE [stream |-> s, ret |-> c + Len(fromBuf), bytes |-> fromBuf \o got]

(* read_stream, r == 0 *)
fi_read_eof(s, mode, iov, c, fromBuf, got) ==
    IF mode = "Blocking"
    THEN IF io_vector_array_has_zero_size(iov)
         THEN [stream |-> FiError(s, "ReadBadRequest"), ret |-> -1, bytes |-> <<>>]
         ELSE [stream |-> [s EXCEPT !.statusFlags = StatusEndOfStream],
               ret |-> c + Len(fromBuf), bytes |-> fromBuf \o got]
    ELSE [stream |-> IF io_vector_array_has_zero_size(iov) THEN s
                     ELSE [s EXCEPT !.statusFlags = StatusEndOfStream],
          ret |-> Len(fromBuf), bytes |-> fromBuf]

(* read_stream from the loop on: s is the stream after the internal buffer was
   drained into the caller's memory (fromBuf), iov the array given to readv *)
fi_read_loop_results(s, env, mode, required, iov, firstReadRequest, fromBuf) ==
    { LET c == e.count
          got == SrcBytes(env.pos, c)
          out == CASE e.kind = "data" -> fi_read_data(s, c, fromBuf, firstReadRequest, got)
                   [] e.kind = "eof" -> fi_read_eof(s, mode, e.iov, c, fromBuf, got)
                   [] e.kind = "again" /\ mode = "NonBlocking" ->
                          [stream |-> s, ret |-> Len(fromBuf), bytes |-> fromBuf]
                   [] e.kind = "again" /\ mode = "Blocking" ->
                          [stream |-> FiError(s, "ReadWouldBlock"), ret |-> -1, bytes |-> <<>>]
                   [] e.kind = "io" ->
                          [stream |-> FiError(s, "ReadIOError"), ret |-> -1, bytes |-> <<>>]
      IN FiResult(out.stream, env.pos + c, out.ret, out.bytes, e.kind)
    : e \in fi_readv_loop(required, iov, 0, env) }

(* fd_input_stream::read_stream(buf_array, required_read) after update_blocking;
   iov holds the lengths of the elements of buf_array *)
fi_read_stream(s, env, iov, required_read) ==
    LET mode == IF required_read > 0 THEN "Blocking" ELSE "NonBlocking" IN
    IF manages_buffer(s)
    THEN LET bufferRead == s.bufferSize
             fromBuf == MemBytes(s.mem, s.bufferOffset, bufferRead)
             iov1 == IF bufferRead > 0 THEN io_vector_array_advance(iov, bufferRead) ELSE iov
             s1 == IF bufferRead > 0 THEN [s EXCEPT !.bufferSize = 0] ELSE s
             required == IF bufferRead > 0 /\ required_read > 0
                         THEN required_read - bufferRead ELSE required_read
             iov2 == IF iov1[1] <= s.cap THEN <<iov1[1], s.cap>> ELSE iov1
         IN fi_read_loop_results(s1, env, mode, required, iov2, iov2[1], fromBuf)
    ELSE IF Len(iov) = 0
    THEN IF mode = "Blocking"
         THEN {FiResult(FiError(s, "ReadBadRequest"), env.pos, -1, <<>>, "request")}
         ELSE {FiResult(s, env.pos, 0, <<>>, "request")}
    ELSE fi_read_loop_results(s, env, mode, required_read, iov, iov[1], <<>>)

(* fd_input_stream::get_read_buffer(mode) after update_blocking; ret is the
   size of the array it returns *)
fi_get_read_buffer(s, env, mode) ==
    { CASE o.kind = "data" ->
               FiResult([s EXCEPT !.bufferOffset = 0, !.bufferSize = o.r,
                                  !.mem = MemStore(@, SrcBytes(env.pos, o.r))],
                        env.pos + o.r, o.r, <<>>, "data")
        [] o.kind = "eof" ->
               FiResult([s EXCEPT !.statusFlags = StatusEndOfStream], env.pos, 0, <<>>, "eof")
        [] o.kind = "again" /\ mode = "NonBlocking" -> FiResult(s, env.pos, 0, <<>>, "again")
        [] o.kind = "again" /\ mode = "Blocking" ->
               FiResult(FiError(s, "ReadWouldBlock"), env.pos, 0, <<>>, "again")
        [] o.kind = "io" -> FiResult(FiError(s, "ReadIOError"), env.pos, 0, <<>>, "io")
    : o \in SysReadResults(s.cap, env, env.pos) }

FiRunning == fiObs.abort = "none"

FiOutcome(s, env, ret, bytes, kind, failed) ==
    [stream |-> s, env |-> env, ret |-> ret, bytes |-> bytes, kind |-> kind,
     fcntlFailed |-> failed]

(* the stream and its descriptor after update_blocking(mode, &fdBlocking, fd),
   ok the result of fd::set_nonblock *)
fi_update_blocking(s, env, sysmode, ok) ==
    LET u == update_blocking(sysmode, s.fdBlocking, env.nonblock, ok)
    IN [stream |-> [s EXCEPT !.fdBlocking = u.block],
        env |-> [env EXCEPT !.nonblock = u.nonblock]]

(* the start of read_stream and get_read_buffer: has_error(), update_blocking
   for the mode of the system call, then the rest of the method; rest[ok] is
   the set of its results from fi_update_blocking(s, env, sysmode, ok) *)
fi_slow_path(s, env, sysmode, rest, closedRet) ==
    IF has_error(s.statusFlags)
    THEN {FiOutcome(s, env, closedRet, <<>>, "closed", FALSE)}
    ELSE UNION { { FiOutcome(res.stream,
                             [fi_update_blocking(s, env, sysmode, ok).env
                                 EXCEPT !.pos = res.pos],
                             res.ret, res.bytes, res.kind,
                             set_nonblock_failed(sysmode, s.fdBlocking, ok))
                 : res \in rest[ok] }
               : ok \in BOOLEAN }

(* abstract_input_stream::read(buf, size, mode) on the fd stream: the results
   it can have from stream s on descriptor env *)
fi_read(s, env, size, mode) ==
    IF fast_path(s, size)
    THEN {FiOutcome(advance(s, size), env, size,
                    MemBytes(s.mem, s.bufferOffset, size), "fast", FALSE)}
    ELSE LET required == IF mode = "Blocking" THEN size ELSE 0
             sysmode == IF required > 0 THEN "Blocking" ELSE "NonBlocking"
             rest == [ok \in BOOLEAN |->
                        LET u == fi_update_blocking(s, env, sysmode, ok)
                        IN fi_read_stream(u.stream, u.env, <<size>>, required)]
         IN fi_slow_path(s, env, sysmode, rest, -1)

(* mutant: get_buffer goes to the descriptor whether or not the window holds
   bytes *)
fi_get_buffer_refill(s, env, mode) ==
    LET rest == [ok \in BOOLEAN |->
                   LET u == fi_update_blocking(s, env, mode, ok)
                   IN fi_get_read_buffer(u.stream, u.env, mode)]
    IN fi_slow_path(s, env, mode, rest, 0)

(* abstract_input_stream::get_buffer(mode); ret is the size of the window *)
fi_get_buffer(s, env, mode) ==
    IF s.bufferSize > 0
    THEN {FiOutcome(s, env, s.bufferSize, <<>>, "fast", FALSE)}
    ELSE LET rest == [ok \in BOOLEAN |->
                        LET u == fi_update_blocking(s, env, mode, ok)
                        IN fi_get_read_buffer(u.stream, u.env, mode)]
         IN fi_slow_path(s, env, mode, rest, 0)

(* abstract_input_stream::direct_read(buf_array, required_read) *)
fi_direct_read(s, env, iov, required) ==
    LET sysmode == IF required > 0 THEN "Blocking" ELSE "NonBlocking"
        rest == [ok \in BOOLEAN |->
                   LET u == fi_update_blocking(s, env, sysmode, ok)
                   IN fi_read_stream(u.stream, u.env, iov, required)]
    IN fi_slow_path(s, env, sysmode, rest, -1)

FiUnchanged == UNCHANGED <<streamVars, auxVars, algVars, idxVars, bufVars, foVars, inc>>

(* one call on the stream: it has one of its results; the caller appends the
   bytes it was handed to what it has read and keeps a record of the call *)
FI_Call(call, size, iov, required, mode, outcomes, assertion) ==
    /\ FiRunning
    /\ \E o \in outcomes :
          /\ fi' = o.stream
          /\ fiEnv' = o.env
          /\ \E a \in AbortUnless(o.kind \in {"fast", "closed"} \/ assertion,
                                  "fd_input_stream::read_stream:iov_len>bufferRead") :
               fiObs' = [fiObs EXCEPT
                  !.out = @ \o o.bytes,
                  !.abort = a,
                  !.last = [call |-> call, size |-> size, iov |-> iov,
                            required |-> required, mode |-> mode, ret |-> o.ret,
                            kind |-> o.kind, fcntlFailed |-> o.fcntlFailed,
                            pre |-> fi, prePos |-> fiEnv.pos,
                            preNonblock |-> fiEnv.nonblock]]
    /\ FiUnchanged

FI_Read(size, mode) ==
    FI_Call("read", size, <<size>>, IF mode = "Blocking" THEN size ELSE 0, mode,
            fi_read(fi, fiEnv, size, mode),
            ~manages_buffer(fi) \/ size > fi.bufferSize)

FI_GetBuffer(mode) ==
    /\ manages_buffer(fi)
    /\ FI_Call("get", 0, <<>>, 0, mode, fi_get_buffer(fi, fiEnv, mode), TRUE)

(* the caller takes count bytes out of the window: advance_buffer(count) *)
FI_AdvanceBuffer(count) ==
    /\ count >= 1 /\ count <= fi.bufferSize
    /\ FI_Call("advance", count, <<>>, 0, "NonBlocking",
               {FiOutcome(advance(fi, count), fiEnv, 0,
                          MemBytes(fi.mem, fi.bufferOffset, count), "fast", FALSE)},
               TRUE)

FI_DirectRead(iov, required) ==
    /\ ~manages_buffer(fi)
    /\ io_vector_array_size_sum(iov) >= required
    /\ FI_Call("direct", io_vector_array_size_sum(iov), iov, required,
               IF required > 0 THEN "Blocking" ELSE "NonBlocking",
               fi_direct_read(fi, fiEnv, iov, required), TRUE)

(* the arrays a caller of direct_read passes: up to two elements *)
IoVectors == {<<>>} \cup {<<a>> : a \in 0..MaxChunk}
             \cup {<<a, b>> : a \in 0..MaxChunk, b \in 0..1}

(* a stream over a buffer of 0..MaxFdBuf bytes and a descriptor whose source
   holds 0..MaxFdSrc bytes; the caller passes the blocking state it knows of *)
FiSetup ==
    \E cap \in 0..MaxFdBuf, len \in 0..MaxFdSrc, nb \in BOOLEAN :
    \E b \in {"Unknown", IF nb THEN "NonBlocking" ELSE "Blocking"} :
        /\ fi = fi_set_descriptor(cap, b)
        /\ fiEnv = [len |-> len, pos |-> 0, nonblock |-> nb]
        /\ fiObs = [out |-> <<>>, config |-> b, abort |-> "none", last |-> FdNoCall]

FdInInit ==
    /\ StreamVarsInit
    /\ AuxVarsIdle
    /\ AlgVarsIdle
    /\ IdxVarsIdle
    /\ BufVarsIdle
    /\ FoVarsIdle
    /\ inc = IncIdle
    /\ FiSetup

FdInNext ==
    \/ \E size \in 0..MaxChunk, mode \in Modes : FI_Read(size, mode)
    \/ \E mode \in Modes : FI_GetBuffer(mode)
    \/ \E count \in 1..MaxChunk : FI_AdvanceBuffer(count)
    \/ \E iov \in IoVectors, required \in 0..MaxChunk : FI_DirectRead(iov, required)

SpecFdIn == FdInInit /\ [][FdInNext]_vars

(* ===================== fd_output_stream on its own (SpecFdOut) ========== *)
(* the buffer memory after the bytes b were stored from offset off on *)
MemStoreAt(mem, off, b) ==
    [i \in DOMAIN mem |-> IF i > off /\ i <= off + Len(b) THEN b[i - off] ELSE mem[i]]

(* the bytes of the internal buffer that were not written to the descriptor:
   internalWriteSize bytes from bufferWriteOffset on *)
PendingBytes(s) ==
    MemBytes(s.mem, s.bufferWriteOffset, s.bufferOffset - s.bufferWriteOffset)

reset_buffer(s) ==
    [s EXCEPT !.bufferOffset = 0, !.bufferWriteOffset = 0, !.bufferSize = s.cap]

FoError(s, e) == [s EXCEPT !.statusFlags = StatusError, !.err = e, !.bufferSize = 0]

(* the results one io::writev of req bytes can have: a count, EAGAIN on a
   descriptor with O_NONBLOCK, or a failure *)
SysWriteResults(req, env) ==
    [kind : {"data"}, r : IF req = 0 THEN {0} ELSE 1..req]
    \cup (IF env.nonblock /\ req > 0 THEN {[kind |-> "again", r |-> -1]} ELSE {})
    \cup {[kind |-> "io", r |-> -1]}

(* the while( count < sum ) loop of write_fd: the ways it can end and the
   bytes written by then *)
RECURSIVE fo_writev_loop(_, _, _, _)
fo_writev_loop(iov, count, sum, env) ==
    IF count >= sum
    THEN {[kind |-> "done", count |-> count]}
    ELSE UNION { IF o.kind = "data"
                 THEN fo_writev_loop(io_vector_array_advance(iov, o.r), count + o.r, sum, env)
                 ELSE {[kind |-> o.kind, count |-> count]}
               : o \in SysWriteResults(io_vector_array_size_sum(iov), env) }

FoResult(s, sink, ret, kind) == [stream |-> s, sink |-> sink, ret |-> ret, kind |-> kind]

WriteErrorOf(kind) == IF kind = "again" THEN "WriteWouldBlock" ELSE "WriteIOError"

(* mutant: a NonBlocking writev that wrote only part of the pending bytes
   leaves bufferWriteOffset where it was *)
fo_write_partial_stay(s, r) == s

(* write_fd, NonBlocking, 0 <= r < internalWriteSize *)
fo_write_partial(s, r) == [s EXCEPT !.bufferWriteOffset = @ + r]

(* fd_output_stream::write_fd(buf_array, mode) after update_blocking; data
   holds the bytes of the one element of buf_array *)
fo_write_fd(s, env, data, mode) ==
    LET internalWriteSize == IF manages_buffer(s) THEN s.bufferOffset - s.bufferWriteOffset
                             ELSE 0
        iov == IF internalWriteSize > 0 THEN <<internalWriteSize, Len(data)>>
               ELSE <<Len(data)>>
        all == IF internalWriteSize > 0 THEN PendingBytes(s) \o data ELSE data
        sum == io_vector_array_size_sum(iov)
        flushed == IF manages_buffer(s) THEN reset_buffer(s) ELSE s
    IN IF mode = "Blocking"
       THEN { IF e.kind = "done"
              THEN FoResult(flushed, env.sink \o all, sum - internalWriteSize, "data")
              ELSE FoResult(FoError(s, WriteErrorOf(e.kind)),
                            env.sink \o SubSeq(all, 1, e.count), -1, e.kind)
            : e \in fo_writev_loop(iov, 0, sum, env) }
       ELSE { CASE o.kind = "data" /\ o.r >= internalWriteSize ->
                     FoResult(flushed, env.sink \o SubSeq(all, 1, o.r),
                              o.r - internalWriteSize, "data")
                [] o.kind = "data" /\ o.r < internalWriteSize ->
                     FoResult(fo_write_partial(s, o.r), env.sink \o SubSeq(all, 1, o.r),
                              0, "data")
                [] o.kind = "again" -> FoResult(s, env.sink, 0, "again")
                [] o.kind = "io" -> FoResult(FoError(s, "WriteIOError"), env.sink, -1, "io")
            : o \in SysWriteResults(sum, env) }

FoOutcome(s, env, ret, kind) == [stream |-> s, env |-> env, ret |-> ret, kind |-> kind]

(* write_fd from its start: has_error(), update_blocking, then the rest *)
fo_write_stream(s, env, data, mode) ==
    IF has_error(s.statusFlags)
    THEN {FoOutcome(s, env, -1, "closed")}
    ELSE UNION { LET u == update_blocking(mode, s.fdBlocking, env.nonblock, ok)
                     s1 == [s EXCEPT !.fdBlocking = u.block]
                     env1 == [env EXCEPT !.nonblock = u.nonblock]
                 IN { FoOutcome(res.stream, [env1 EXCEPT !.sink = res.sink], res.ret, res.kind)
                    : res \in fo_write_fd(s1, env1, data, mode) }
               : ok \in BOOLEAN }

(* abstract_output_stream::write(buf, size, mode), data the size bytes of buf *)
fo_write(s, env, data, mode) ==
    IF fast_path(s, Len(data))
    THEN {FoOutcome(advance([s EXCEPT !.mem = MemStoreAt(@, s.bufferOffset, data)],
                            Len(data)),
                    env, Len(data), "fast")}
    ELSE fo_write_stream(s, env, data, mode)

(* mutant: the flush reports success whenever write_fd has not failed *)
fo_flush_buffer_lax(s, env, mode) ==
    IF ~manages_buffer(s)
    THEN {FoOutcome(s, env, 1, "fast")}
    ELSE { [o EXCEPT !.ret = IF o.ret >= 0 THEN 1 ELSE 0]
         : o \in fo_write_stream(s, env, <<>>, mode) }

(* abstract_output_stream::flush_buffer(mode) with fd_output_stream::
   buffer_flush; ret is 1 for true and 0 for false *)
fo_flush_buffer(s, env, mode) ==
    IF ~manages_buffer(s)
    THEN {FoOutcome(s, env, 1, "fast")}
    ELSE { [o EXCEPT !.ret = IF o.ret >= 0 /\ o.stream.bufferOffset = 0 THEN 1 ELSE 0]
         : o \in fo_write_stream(s, env, <<>>, mode) }

FoUnchanged == UNCHANGED <<streamVars, auxVars, algVars, idxVars, bufVars, fiVars, inc>>

(* one call on the stream has one of its results; the caller counts the bytes
   reported as accepted and keeps a record of the call *)
FO_Call(call, size, mode, outcomes) ==
    /\ \E o \in outcomes :
          /\ fo' = o.stream
          /\ foEnv' = o.env
          /\ foObs' = [acc |-> foObs.acc + (IF call = "write" /\ o.ret > 0 THEN o.ret ELSE 0),
                       last |-> [call |-> call, size |-> size, mode |-> mode,
                                 ret |-> o.ret, kind |-> o.kind, pre |-> fo,
                                 preSink |-> foEnv.sink]]
    /\ FoUnchanged

(* the caller writes the next size bytes of its data *)
FO_Write(size, mode) ==
    /\ foObs.acc + size <= MaxFdSrc
    /\ FO_Call("write", size, mode, fo_write(fo, foEnv, SrcBytes(foObs.acc, size), mode))

FO_FlushBuffer(mode) ==
    FO_Call("flush", 0, mode, fo_flush_buffer(fo, foEnv, mode))

(* a stream over a buffer of 0..MaxFdBuf bytes on a descriptor in either mode *)
FoSetup ==
    \E cap \in 0..MaxFdBuf, nb \in BOOLEAN :
    \E b \in {"Unknown", IF nb THEN "NonBlocking" ELSE "Blocking"} :
        /\ fo = fo_set_descriptor(cap, b)
        /\ foEnv = [sink |-> <<>>, nonblock |-> nb]
        /\ foObs = [acc |-> 0, last |-> FoNoCall]

FdOutInit ==
    /\ StreamVarsInit
    /\ AuxVarsIdle
    /\ AlgVarsIdle
    /\ IdxVarsIdle
    /\ BufVarsIdle
    /\ FiVarsIdle
    /\ inc = IncIdle
    /\ FoSetup

FdOutNext ==
    \/ \E size \in 0..MaxChunk, mode \in Modes : FO_Write(size, mode)
    \/ \E mode \in Modes : FO_FlushBuffer(mode)

SpecFdOut == FdOutInit /\ [][FdOutNext]_vars

(* fd_output_stream::set_descriptor on a stream in use: fd, fdBlocking and err
   are assigned and reset_buffer() drops what the buffer holds *)
fo_set_descriptor_again(s, b) ==
    [reset_buffer(s) EXCEPT !.fdBlocking = b, !.err = "WriteNoError"]

(* the caller passes an open descriptor in either mode and the blocking state
   it knows of *)
FO_SetDescriptor ==
    \E nb \in BOOLEAN :
    \E b \in {"Unknown", IF nb THEN "NonBlocking" ELSE "Blocking"} :
        FO_Call("set_descriptor", 0, "NonBlocking",
                {[stream |-> fo_set_descriptor_again(fo, b),
                  env |-> [foEnv EXCEPT !.nonblock = nb],
                  ret |-> 0, kind |-> "none"]})

FdOutResetNext ==
    \/ FdOutNext
    \/ FO_SetDescriptor

SpecFdOutReset == FdOutInit /\ [][FdOutResetNext]_vars

(* ========== incremental_reader and incremental_writer (SpecInc) ========= *)
(* reset(dst) resp. reset(src) over a value of n bytes; dst is the memory of
   the value of a reader *)
inc_reset(side, n) ==
    [IncIdle EXCEPT !.side = side, !.n = n, !.left = n, !.dst = [i \in 1..n |-> 0]]

(* mutant: a step that does not complete the value leaves position where it
   was *)
incremental_step_stay(i, c) ==
    [i EXCEPT !.left = IF c < 0 THEN @ ELSE @ - c,
              !.ret = c >= 0 /\ i.left - c = 0]

(* incremental_reader::read and incremental_writer::write after the call of
   the stream has returned c *)
incremental_step(i, c) ==
    IF c < 0
    THEN [i EXCEPT !.ret = FALSE]
    ELSE IF i.left - c = 0
    THEN [i EXCEPT !.left = 0, !.ret = TRUE]
    ELSE [i EXCEPT !.left = @ - c, !.position = @ + c, !.ret = FALSE]

(* what a step records of itself *)
IncStepped(i, c, after, failed) ==
    [after EXCEPT !.stepped = TRUE, !.c = c, !.preLeft = i.left,
                  !.prePosition = i.position, !.preError = failed]

(* incremental_reader::read(stream) on the fd input stream; the bytes the
   stream hands out land at position *)
IR_Read ==
    /\ inc.side = "reader"
    /\ FiRunning
    /\ \E o \in fi_read(fi, fiEnv, inc.left, "NonBlocking") :
          /\ fi' = o.stream
          /\ fiEnv' = o.env
          /\ \E a \in AbortUnless(o.kind \in {"fast", "closed"} \/ ~manages_buffer(fi)
                                    \/ inc.left > fi.bufferSize,
                                  "fd_input_stream::read_stream:iov_len>bufferRead") :
               fiObs' = [fiObs EXCEPT
                  !.out = @ \o o.bytes,
                  !.abort = a,
                  !.last = [call |-> "read", size |-> inc.left, iov |-> <<inc.left>>,
                            required |-> 0, mode |-> "NonBlocking", ret |-> o.ret,
                            kind |-> o.kind, fcntlFailed |-> o.fcntlFailed,
                            pre |-> fi, prePos |-> fiEnv.pos,
                            preNonblock |-> fiEnv.nonblock]]
          /\ inc' = IncStepped(inc, o.ret,
                       [incremental_step(inc, o.ret) EXCEPT
                           !.dst = MemStoreAt(@, inc.position, o.bytes)],
                       has_error(fi.statusFlags))
    /\ UNCHANGED <<streamVars, auxVars, algVars, idxVars, bufVars, foVars>>

(* the value an incremental_writer writes *)
IncValue == SrcBytes(0, inc.n)

(* incremental_writer::write(stream) on the fd output stream *)
IW_Write ==
    /\ inc.side = "writer"
    /\ \E o \in fo_write(fo, foEnv,
                         SubSeq(IncValue, inc.position + 1, inc.position + inc.left),
                         "NonBlocking") :
          /\ fo' = o.stream
          /\ foEnv' = o.env
          /\ foObs' = [acc |-> foObs.acc + (IF o.ret > 0 THEN o.ret ELSE 0),
                       last |-> [call |-> "write", size |-> inc.left, mode |-> "NonBlocking",
                                 ret |-> o.ret, kind |-> o.kind, pre |-> fo,
                                 preSink |-> foEnv.sink]]
          /\ inc' = IncStepped(inc, o.ret, incremental_step(inc, o.ret),
                               has_error(fo.statusFlags))
    /\ UNCHANGED <<streamVars, auxVars, algVars, idxVars, bufVars, fiVars>>

(* a reader over an fd input stream, or a writer over an fd output stream, for
   a value of 0..MaxChunk bytes *)
IncInit ==
    /\ StreamVarsInit
    /\ AuxVarsIdle
    /\ AlgVarsIdle
    /\ IdxVarsIdle
    /\ BufVarsIdle
    /\ \E n \in 0..MaxChunk :
          \/ FiSetup /\ FoVarsIdle /\ inc = inc_reset("reader", n)
          \/ FoSetup /\ FiVarsIdle /\ inc = inc_reset("writer", n)

IncNext == IR_Read \/ IW_Write

SpecInc == IncInit /\ [][IncNext]_vars

(* =================== ring_spsc::handle on its own (SpecHandle) ========== *)
(* algorithm::ranges: the cells of the two array_refs it returns *)
ranges(off, available, n) ==
    LET first == continuous_slots(off, available, n)
    IN  {off + i : i \in 0..(first - 1)} \cup {i : i \in 0..(available - first - 1)}

(* handle::data::reset: both local indices are loaded from the shared ones *)
hd_reset(p, c) == [local_producer_index |-> p, local_consumer_index |-> c]

(* mutant: the producer takes every slot of the ring as free *)
hd_producer_last_available_ring(d) == d.n

hd_producer_last_available(d) ==
    producer_free_slots(d.producer.local_producer_index,
                        d.producer.local_consumer_index, d.n)

hd_consumer_last_available(d) ==
    consumer_free_slots(d.consumer.local_producer_index,
                        d.consumer.local_consumer_index, d.n)

hd_producer_ranges(d) ==
    ranges(offset(d.producer.local_producer_index, d.n),
           hd_producer_last_available(d), d.n)

hd_consumer_ranges(d) ==
    ranges(offset(d.consumer.local_consumer_index, d.n),
           hd_consumer_last_available(d), d.n)

HdUnchanged == UNCHANGED <<mainVars, tb, era, bos, adv>>

(* producer::update_available *)
HD_ProducerUpdate ==
    /\ hd.n >= 1
    /\ LET d == [hd EXCEPT !.producer.local_consumer_index = hd.shared_consumer_index]
       IN  hd' = [d EXCEPT !.last = "p_update", !.k = hd_producer_last_available(d)]
    /\ HdUnchanged

(* producer::publish(count), after the first count cells of its ranges were
   written: count is at most last_available() *)
HD_Publish(count) ==
    /\ hd.n >= 1
    /\ count >= 1 /\ count <= hd_producer_last_available(hd)
    /\ LET i == new_index(hd.producer.local_producer_index, count, hd.n)
           off == offset(hd.producer.local_producer_index, hd.n)
       IN  hd' = [hd EXCEPT !.producer.local_producer_index = i,
                            !.shared_producer_index = i,
                            !.filled = hd.filled \cup ranges(off, count, hd.n),
                            !.last = "publish", !.k = count]
    /\ HdUnchanged

(* consumer::update_available *)
HD_ConsumerUpdate ==
    /\ hd.n >= 1
    /\ LET d == [hd EXCEPT !.consumer.local_producer_index = hd.shared_producer_index]
       IN  hd' = [d EXCEPT !.last = "c_update", !.k = hd_consumer_last_available(d)]
    /\ HdUnchanged

(* consumer::release(count), after the first count cells of its ranges were
   read: count is at most last_available() *)
HD_Release(count) ==
    /\ hd.n >= 1
    /\ count >= 1 /\ count <= hd_consumer_last_available(hd)
    /\ LET i == new_index(hd.consumer.local_consumer_index, count, hd.n)
           off == offset(hd.consumer.local_consumer_index, hd.n)
       IN  hd' = [hd EXCEPT !.consumer.local_consumer_index = i,
                            !.shared_consumer_index = i,
                            !.filled = hd.filled \ ranges(off, count, hd.n),
                            !.last = "release", !.k = count]
    /\ HdUnchanged

(* pair_producer_consumer over a buffer of n slots and two indices of 0 *)
HandleInit ==
    /\ StreamVarsInit
    /\ AlgVarsIdle
    /\ IdxVarsIdle
    /\ BufVarsIdle
    /\ FdVarsIdle
    /\ tb = TbIdle /\ era = EraIdle /\ bos = BosIdle /\ adv = AdvIdle
    /\ \E n \in 1..MaxAlgRing :
          hd = [HdIdle EXCEPT !.n = n, !.producer = hd_reset(0, 0),
                              !.consumer = hd_reset(0, 0)]

HandleNext ==
    \/ HD_ProducerUpdate
    \/ \E k \in 1..MaxAlgRing : HD_Publish(k)
    \/ HD_ConsumerUpdate
    \/ \E k \in 1..MaxAlgRing : HD_Release(k)

SpecHandle == HandleInit /\ [][HandleNext]_vars

(* ==================== triple_buffer_spsc on its own (SpecTriple) ======== *)
TbUnchanged == UNCHANGED <<mainVars, hd, era, bos, adv>>

(* the producer thread stores a value in current_producer_buffer() *)
TB_ProducerFill(v) ==
    /\ tb.run /\ tb.ppc = "idle"
    /\ tb.buffer[tb.producer_idx] # v
    /\ tb' = [tb EXCEPT !.buffer[tb.producer_idx] = v]
    /\ TbUnchanged

(* mutant: the idle index is loaded, not exchanged *)
TB_ProducerExchange_load ==
    /\ tb.run /\ tb.ppc = "idle"
    /\ tb' = [tb EXCEPT !.pret = tb.idle_idx, !.ppc = "store"]
    /\ TbUnchanged

(* swap_producer_buffer, first half: idle_idx.exchange(producer_idx) *)
TB_ProducerExchange ==
    /\ tb.run /\ tb.ppc = "idle"
    /\ tb' = [tb EXCEPT !.idle_idx = tb.producer_idx, !.pret = tb.idle_idx,
                        !.ppc = "store"]
    /\ TbUnchanged

(* swap_producer_buffer, second half: the store of the result to producer_idx *)
TB_ProducerStore ==
    /\ tb.ppc = "store"
    /\ tb' = [tb EXCEPT !.producer_idx = tb.pret, !.ppc = "idle"]
    /\ TbUnchanged

(* the consumer thread loads the value of current_consumer_buffer() *)
TB_ConsumerLook ==
    /\ tb.run /\ tb.cpc = "idle"
    /\ tb.seen # tb.buffer[tb.consumer_idx]
    /\ tb' = [tb EXCEPT !.seen = tb.buffer[tb.consumer_idx]]
    /\ TbUnchanged

(* swap_consumer_buffer, first half: idle_idx.exchange(consumer_idx) *)
TB_ConsumerExchange ==
    /\ tb.run /\ tb.cpc = "idle"
    /\ tb' = [tb EXCEPT !.idle_idx = tb.consumer_idx, !.cret = tb.idle_idx,
                        !.cpc = "store"]
    /\ TbUnchanged

(* swap_consumer_buffer, second half: the store of the result to consumer_idx *)
TB_ConsumerStore ==
    /\ tb.cpc = "store"
    /\ tb' = [tb EXCEPT !.consumer_idx = tb.cret, !.cpc = "idle"]
    /\ TbUnchanged

TripleInit ==
    /\ StreamVarsInit
    /\ AlgVarsIdle
    /\ IdxVarsIdle
    /\ BufVarsIdle
    /\ FdVarsIdle
    /\ hd = HdIdle /\ era = EraIdle /\ bos = BosIdle /\ adv = AdvIdle
    /\ tb = [TbIdle EXCEPT !.run = TRUE]

TripleNext ==
    \/ \E v \in 1..MaxChunk : TB_ProducerFill(v)
    \/ TB_ProducerExchange
    \/ TB_ProducerStore
    \/ TB_ConsumerLook
    \/ TB_ConsumerExchange
    \/ TB_ConsumerStore

SpecTriple == TripleInit /\ [][TripleNext]_vars

(* ================ io_vector_array_advance on its own (SpecAdv) ========== *)
(* the while loop over elements {iov_base, iov_len}: the index (from 0) it
   stops at and the size left for that element *)
RECURSIVE io_vector_array_advance_loop(_, _, _)
io_vector_array_advance_loop(array, i, size) ==
    IF size > 0 /\ i < Len(array) /\ array[i + 1].iov_len <= size
    THEN io_vector_array_advance_loop(array, i + 1, size - array[i + 1].iov_len)
    ELSE [i |-> i, size |-> size]

(* mutant: the element the loop stops at is shortened, its base is left *)
io_vector_array_advance_len_only(array, size) ==
    LET r == io_vector_array_advance_loop(array, 0, size)
    IN  [i |-> r.i,
         array |-> IF r.size > 0 /\ r.i < Len(array)
                   THEN [array EXCEPT ![r.i + 1].iov_len = @ - r.size]
                   ELSE array]

(* the array after the call and the index at which the returned view starts *)
io_vector_array_advance_view(array, size) ==
    LET r == io_vector_array_advance_loop(array, 0, size)
    IN  [i |-> r.i,
         array |-> IF r.size > 0 /\ r.i < Len(array)
                   THEN [array EXCEPT ![r.i + 1].iov_base = @ + r.size,
                                      ![r.i + 1].iov_len = @ - r.size]
                   ELSE array]

(* array_ref::sub(i) *)
array_sub(array, i) == SubSeq(array, i + 1, Len(array))

AdvUnchanged == UNCHANGED <<mainVars, hd, tb, era, bos>>

ADV_Advance ==
    /\ adv.st = "input"
    /\ LET r == io_vector_array_advance_view(adv.array, adv.size)
       IN  adv' = [adv EXCEPT !.st = "done", !.array = r.array, !.i = r.i]
    /\ AdvUnchanged

(* 1..MaxIov elements of 0..MaxChunk bytes each, in separate places of the
   memory, and a size up to the sum of the lengths *)
AdvInit ==
    /\ StreamVarsInit
    /\ AlgVarsIdle
    /\ IdxVarsIdle
    /\ BufVarsIdle
    /\ FdVarsIdle
    /\ hd = HdIdle /\ tb = TbIdle /\ era = EraIdle /\ bos = BosIdle
    /\ \E n \in 1..MaxIov : \E lens \in [1..n -> 0..MaxChunk] :
       LET a == [k \in 1..n |-> [iov_base |-> k * (MaxChunk + 1), iov_len |-> lens[k]]]
       IN  \E size \in 0..io_vector_array_size_sum(lens) :
               adv = [st |-> "input", orig |-> a, size |-> size, array |-> a, i |-> 0]

AdvNext == ADV_Advance

SpecAdv == AdvInit /\ [][AdvNext]_vars

(* ================= byte_buffer::erase on its own (SpecErase) ============ *)
(* byte_buffer::size *)
bb_size(b) == IF b.small THEN b.small_size ELSE b.ext_size

(* the bytes of byte_buffer::ref: size() bytes from char_data() *)
bb_ref(b) ==
    IF b.small THEN SubSeq(b.small_data, 1, b.small_size)
               ELSE SubSeq(b.ext_data, 1, b.ext_size)

(* std::memmove(c + to, c + from, n) on the memory c, offsets from 0 *)
memmove(c, to, from, n) ==
    [j \in 1..Len(c) |-> IF j > to /\ j <= to + n THEN c[j - to + from] ELSE c[j]]

(* the four bytes of an uint32_t below 256 in the byte order of the build *)
Uint32Bytes(v, little) == IF little THEN <<v, 0, 0, 0>> ELSE <<0, 0, 0, v>>

(* the store d.ext.size = v: in the small representation the member lies on
   bytes 4..7 of the union, which are small.data[3..6]; small.size is byte 0 *)
store_ext_size(b, v, little) ==
    IF b.small
    THEN [b EXCEPT !.small_data =
             [j \in 1..SmallResered |->
                 IF j >= 4 /\ j <= 7 THEN Uint32Bytes(v, little)[j - 3]
                                     ELSE b.small_data[j]]]
    ELSE [b EXCEPT !.ext_size = v]

(* byte_buffer::erase *)
bb_erase(b, index, count, little) ==
    LET oldSize     == bb_size(b)
        cnt         == Min(oldSize - index, count)
        secondIndex == index + cnt
        newSize     == oldSize - cnt
        moved       == IF b.small
                       THEN [b EXCEPT !.small_data =
                                memmove(@, index, secondIndex, oldSize - secondIndex)]
                       ELSE [b EXCEPT !.ext_data =
                                memmove(@, index, secondIndex, oldSize - secondIndex)]
    IN  store_ext_size(moved, newSize, little)

EraUnchanged == UNCHANGED <<mainVars, hd, tb, bos, adv>>

BE_Erase ==
    /\ era.st = "input"
    /\ era' = [era EXCEPT !.st = "done",
                          !.b = bb_erase(era.b, era.index, era.count, era.little)]
    /\ EraUnchanged

(* the byte at place j of a buffer before the call *)
EraByte(j) == SmallResered + j

(* a buffer of 0..SmallResered bytes in the small representation or of
   0..MaxExtSize bytes in the external one, an index within it and a count
   that may pass its end *)
EraseInit ==
    /\ StreamVarsInit
    /\ AlgVarsIdle
    /\ IdxVarsIdle
    /\ BufVarsIdle
    /\ FdVarsIdle
    /\ hd = HdIdle /\ tb = TbIdle /\ bos = BosIdle /\ adv = AdvIdle
    /\ \E small \in BOOLEAN, little \in BOOLEAN :
       \E size \in 0..(IF small THEN SmallResered ELSE MaxExtSize) :
       \E index \in 0..size, count \in 0..(size + 1) :
       LET b == IF small
                THEN [ByteBufferInit EXCEPT
                         !.small_size = size,
                         !.small_data = [j \in 1..SmallResered |->
                                            IF j <= size THEN EraByte(j) ELSE 0]]
                ELSE [ByteBufferInit EXCEPT
                         !.small = FALSE, !.ext_size = size,
                         !.ext_data = [j \in 1..(size + 1) |->
                                          IF j <= size THEN EraByte(j) ELSE 0]]
       IN  era = [st |-> "input", b |-> b, little |-> little, index |-> index,
                  count |-> count, pre |-> bb_ref(b)]

EraseNext == BE_Erase

SpecErase == EraseInit /\ [][EraseNext]_vars

(* ============ byte_buffer_output_stream on its own (SpecBos) ============ *)
Max(a, b) == IF a > b THEN a ELSE b

(* byte_buffer::capacity *)
bb_capacity(b) == IF b.small THEN SmallResered ELSE Len(b.ext_data)

(* byte_buffer::set_size_checked *)
bb_set_size_checked(b, size) ==
    IF b.small THEN [b EXCEPT !.small_size = size] ELSE [b EXCEPT !.ext_size = size]

(* byte_buffer::append_commit *)
bb_append_commit(b, count) == bb_set_size_checked(b, bb_size(b) + count)

(* the memory at char_data() with bytes stored from offset off (from 0) on *)
bb_store(b, off, bytes) ==
    IF b.small THEN [b EXCEPT !.small_data = MemStoreAt(@, off, bytes)]
               ELSE [b EXCEPT !.ext_data = MemStoreAt(@, off, bytes)]

(* byte_buffer::grow_capacity *)
bb_grow_capacity(b, size) ==
    LET cap == bb_capacity(b)
    IN  IF cap = SmallResered THEN Max(32, size)
        ELSE IF cap >= ByteBufferMaxSize \div 2 THEN ByteBufferMaxSize
        ELSE Max(cap * 2, size)

(* byte_buffer::append(array_ref): append_base and the copy of the bytes *)
bb_append(b, bytes) ==
    LET oldSize == bb_size(b)
        newSize == oldSize + Len(bytes)
    IN  IF bb_capacity(b) < newSize
        THEN [b EXCEPT !.small = FALSE, !.ext_size = newSize,
                       !.ext_data = [j \in 1..bb_grow_capacity(b, newSize) |->
                                        IF j <= oldSize THEN bb_ref(b)[j]
                                        ELSE IF j <= newSize THEN bytes[j - oldSize]
                                        ELSE 0]]
        ELSE bb_set_size_checked(bb_store(b, oldSize, bytes), newSize)

(* byte_buffer_output_stream::sync_state *)
bos_sync_state(st) ==
    [st EXCEPT !.buffer_offset = bb_size(st.buffer),
               !.buffer_available = bb_capacity(st.buffer) - bb_size(st.buffer)]

(* byte_buffer_output_stream::reset(byte_buffer&&) *)
bos_reset(st, buf) == [bos_sync_state([st EXCEPT !.buffer = buf]) EXCEPT !.status_flags = 0]

(* byte_buffer_output_stream::write_stream: the stream after the call and
   the value returned *)
bos_write_stream(st, bytes) ==
    IF st.status_flags # 0 THEN [st |-> st, ret |-> -1]
    ELSE LET c == [st EXCEPT !.buffer =
                      bb_append_commit(@, st.buffer_offset - bb_size(st.buffer))]
         IN  IF ByteBufferMaxSize - bb_size(c.buffer) > Len(bytes)
             THEN [st |-> [c EXCEPT !.status_flags = StatusError], ret |-> -1]
             ELSE [st |-> bos_sync_state([c EXCEPT !.buffer = bb_append(@, bytes)]),
                   ret |-> Len(bytes)]

(* abstract_output_stream::write on the stream *)
bos_write(st, bytes) ==
    IF st.buffer_available >= Len(bytes) /\ st.buffer_available > 0
    THEN [st |-> [st EXCEPT !.buffer = bb_store(@, st.buffer_offset, bytes),
                            !.buffer_offset = @ + Len(bytes),
                            !.buffer_available = @ - Len(bytes)],
          ret |-> Len(bytes), slow |-> FALSE]
    ELSE [slow |-> TRUE] @@ bos_write_stream(st, bytes)

BosUnchanged == UNCHANGED <<mainVars, hd, tb, era, adv>>

(* write(buf, size, mode); the bytes of buf continue the count of the bytes
   accepted so far *)
BOS_Write(size) ==
    /\ Len(bos.accepted) + size <= SmallResered + MaxChunk
    /\ LET bytes == [j \in 1..size |-> Len(bos.accepted) + j]
           r     == bos_write(bos, bytes)
       IN  bos' = [r.st EXCEPT
                      !.accepted = IF r.ret > 0 THEN @ \o SubSeq(bytes, 1, r.ret) ELSE @,
                      !.last = [op |-> "write", size |-> size, ret |-> r.ret,
                                slow |-> r.slow, preFlags |-> bos.status_flags,
                                expect |-> bos.accepted \o bytes]]
    /\ BosUnchanged

(* reset with a buffer in the small representation holding 0..SmallResered bytes *)
BosInit ==
    /\ StreamVarsInit
    /\ AlgVarsIdle
    /\ IdxVarsIdle
    /\ BufVarsIdle
    /\ FdVarsIdle
    /\ hd = HdIdle /\ tb = TbIdle /\ era = EraIdle /\ adv = AdvIdle
    /\ \E n \in 0..SmallResered :
       LET content == [j \in 1..n |-> j]
           buf == bb_set_size_checked(bb_store(ByteBufferInit, 0, content), n)
       IN  bos = [bos_reset(BosIdle, buf) EXCEPT !.accepted = content]

BosNext == \E size \in 0..MaxChunk : BOS_Write(size)

SpecBos == BosInit /\ [][BosNext]_vars

(* =============================== claims ================================= *)

(* the bytes the producer has written so far: byte i carries the value i *)
Written == [i \in 1..sent |-> i]

(* C1: what the consumer has received is at all times a prefix of the bytes the
   producer has written, in order, nothing lost, duplicated or reordered; it is
   all of them once the consumer has read as many bytes as were written *)
C1_ReceivedIsPrefix ==
    /\ Len(recv) <= sent
    /\ recv = SubSeq(Written, 1, Len(recv))
    /\ (Len(recv) = sent => recv = Written)

(* all the bytes went through a ring smaller than the sequence, so that the
   indices wrapped *)
C1_Witness == Len(recv) = MaxBytes /\ ringSize > 1 /\ ringSize < MaxBytes

(* C2: the consumer stream is never at end of stream (at_end() true) while
   bytes published before the store of eos are still unread *)
C2_NoEosBeforeData == at_end(istream.statusFlags) => Len(recv) = published

(* what the next load of the peer's index would give each side *)
OutFinds ==
    out_update_buffer_size(ostream, shared.consumer_index, ostream.lastIndex,
                           ostream.segmentLimit, ringSize).bufferSize > 0

InFinds ==
    \/ in_update_buffer_size(istream, shared.producer_index, istream.lastIndex,
                             istream.segmentLimit, ringSize).bufferSize > 0
    \/ shared.eos

OutBlocked == pt.pc = "wait" /\ ~WriteReady(efd)
InBlocked == ct.pc = "wait" /\ ~ReadReady(efd)

(* C3: there is no reachable state in which the producer and the consumer are
   both blocked in a wait on the event counter; when both are in a wait, the
   side the counter lets go finds a non-empty window (or eos) at its re-check *)
C3_NotBothBlocked ==
    /\ ~(OutBlocked /\ InBlocked)
    /\ (pt.pc = "wait" /\ ct.pc = "wait")
          => \/ (WriteReady(efd) /\ OutFinds)
             \/ (ReadReady(efd) /\ InFinds)

(* both next_buffer calls are at a wait at once *)
C3_Witness == pt.pc = "wait" /\ ct.pc = "wait"

(* C4: no wake-up is lost: with Blocking writes followed by flush_buffer and
   Blocking reads, under weak fairness of both threads, every blocking call
   eventually returns and the consumer eventually receives every byte *)
C4_AllDelivered ==
    <>(recv = Written /\ sent = MaxBytes /\ pdone /\ pt.pc = "idle" /\ ct.pc = "idle")

OutSecondWaitFinds ==
    (pt.pc = "chk" /\ pt.stage = 6) => OutFinds

InSecondWaitFinds ==
    /\ (ct.pc = "chk" /\ ct.stage = 6) => InFinds
    /\ (ct.pc = "chk_eos" /\ ct.stage = 6) => shared.eos

(* C5: the re-check after the second wait of a Blocking next_buffer call
   always finds space (producer) or data or eos (consumer), so that neither
   final assert(false) is reached *)
C5_FinalAssertUnreachable ==
    /\ OutSecondWaitFinds
    /\ InSecondWaitFinds
    /\ aborted \notin {"out.next_buffer:assert(false)", "in.next_buffer:assert(false)"}

(* the consumer has returned from its second wait and is about to re-check *)
C5_Witness == ct.pc = "chk" /\ ct.stage = 6 /\ pt.pc # "idle"

(* the cells of the ring memory inside the window of a stream *)
Cells(s) == {i \in 0..(ringSize - 1) :
                s.bufferOffset <= i /\ i < s.bufferOffset + s.bufferSize}

(* the published, unconsumed cells from offset(c, N) up to the end of the memory *)
PublishedCells ==
    LET c == shared.consumer_index
        off == offset(c, ringSize)
        cnt == continuous_slots(off, consumer_free_slots(shared.producer_index, c, ringSize),
                                ringSize)
    IN {i \in 0..(ringSize - 1) : off <= i /\ i < off + cnt}

(* the free cells from offset(p, N) up to the end of the memory *)
FreeCells ==
    LET p == shared.producer_index
        off == offset(p, ringSize)
        cnt == continuous_slots(off, producer_free_slots(p, shared.consumer_index, ringSize),
                                ringSize)
    IN {i \in 0..(ringSize - 1) : off <= i /\ i < off + cnt}

(* C6: the window of the producer and the window of the consumer never overlap:
   the consumer's window lies inside the published, unconsumed cells that start
   at offset(c, N), the producer's inside the free cells that start at
   offset(p, N), and neither runs past the end of the ring memory *)
C6_WindowsDisjoint ==
    paired =>
        /\ Cells(ostream) \cap Cells(istream) = {}
        /\ Cells(istream) \subseteq PublishedCells
        /\ Cells(ostream) \subseteq FreeCells
        /\ istream.bufferOffset + istream.bufferSize <= ringSize
        /\ ostream.bufferOffset + ostream.bufferSize <= ringSize

(* both sides hold a non-empty window at once, away from the start of the ring *)
C6_Witness ==
    /\ paired /\ ringSize > 1
    /\ Cells(ostream) # {} /\ Cells(istream) # {}
    /\ istream.bufferOffset > 0

(* C7: a read that starts with at_end() true, Blocking or NonBlocking, returns
   0 and does not set the Error flag *)
C7_ReadAtEndReturnsZero ==
    (ct.pc = "done" /\ ct.call = "read" /\ ct.entryEnd)
        => (ct.ret = 0 /\ ~has_error(istream.statusFlags))

(* C8: after set_end_of_stream, under weak fairness of both threads, the
   consumer is handed the bytes still in the ring and then observes end of
   stream, without error *)
C8_EosObserved ==
    <>(/\ at_end(istream.statusFlags) /\ ~has_error(istream.statusFlags)
       /\ recv = Written /\ sent = MaxBytes)

(* C9: after pair_streams and every later operation neither stream exposes a
   window larger than its segment size limit, the first window included *)
C9_WindowWithinLimit ==
    paired =>
        /\ ostream.bufferSize <= ostream.segmentLimit
        /\ istream.bufferSize <= istream.segmentLimit

(* C10: the free slots of the two sides add up to the ring size at every index
   pair reachable from (0, 0) *)
C10_FreeSlotsSum ==
    producer_free_slots(algP, algC, algN) + consumer_free_slots(algP, algC, algN) = algN

(* a pair where the consumer index is in the mirrored half ahead of the producer *)
C10_Witness == algC > algP /\ algP > 0 /\ algN = MaxAlgRing

(* C11: advancing the producer index by k <= producer_free_slots increases
   consumer_free_slots by exactly k and decreases producer_free_slots by
   exactly k; advancing the consumer index by k <= consumer_free_slots does the
   same with the two sides exchanged *)
C11_AdvanceMovesFreeSlots ==
    /\ algSide = "producer" =>
          /\ consumer_free_slots(algP, algC, algN) = algCF + algK
          /\ producer_free_slots(algP, algC, algN) = algPF - algK
    /\ algSide = "consumer" =>
          /\ producer_free_slots(algP, algC, algN) = algPF + algK
          /\ consumer_free_slots(algP, algC, algN) = algCF - algK

(* the consumer has advanced by more than one slot across the wrap of its index *)
C11_Witness == algSide = "consumer" /\ algK > 1 /\ algC < algK /\ algP > 0

(* C12: for every ring size N, every index i in [0, 2N) and every count
   k <= N, new_index(i, k, N) lies in [0, 2N) and its offset is
   (offset(i, N) + k) mod N *)
C12_NewIndexOffset ==
    /\ idxI >= 0 /\ idxI < 2 * idxN
    /\ offset(idxI, idxN) = (offset(idxPrev, idxN) + idxK) % idxN

(* new_index has taken an index of the mirrored half back into the first half *)
C12_Witness == idxK > 0 /\ idxPrev >= idxN /\ idxI < idxN /\ idxN > 1

(* a step of the producer that is a slow-path call reaching its store of
   producer_index (next_buffer, or set_end_of_stream), and the same for the
   consumer *)
OutSlowPathStep ==
    /\ pt' # pt
    /\ \/ pt.pc = "nb_publish"
       \/ pt.pc = "idle" /\ pt'.call = "eos"

InSlowPathStep == ct' # ct /\ ct.pc = "nb_publish"

(* the distance from index a to index b on the mirrored index circle of 2N *)
IndexAdvance(a, b) == (b - a) % (2 * ringSize)

(* C13: each slow-path call advances the side's shared index by exactly the
   number of bytes committed since the previous slow-path call, and no other
   step changes the shared index *)
C13_IndexAdvancesByCommitted ==
    [][paired =>
        /\ IndexAdvance(shared.producer_index, shared'.producer_index)
              = IF OutSlowPathStep THEN sent - published ELSE 0
        /\ IndexAdvance(shared.consumer_index, shared'.consumer_index)
              = IF InSlowPathStep THEN Len(recv) - released ELSE 0]_vars

(* both indices have wrapped into the mirrored half through slow-path calls that
   published more than one byte at once *)
C13_Witness ==
    /\ shared.producer_index > ringSize /\ shared.consumer_index > ringSize
    /\ ringSize > 1 /\ ostream.segmentLimit > 1

(* the side is inside a next_buffer call that has stored its wake flag and has
   not yet returned: at a check, an event counter call or a wait after the store *)
OutArmedInside == pt.pc \in {"chk", "efd", "wait"} /\ pt.stage >= 3

InArmedInside == ct.pc \in {"chk", "chk_eos", "efd", "wait"} /\ ct.stage >= 3

(* the consumer has not been handed a window yet: its wake flag is the initial one *)
InNotStarted == released = 0 /\ Len(recv) = 0 /\ istream.bufferSize = 0

(* C14: a wake flag that is true implies its owner is blocked or about to
   block: producer_wake is true only while the producer is inside a next_buffer
   call that has armed the flag and has not returned, and consumer_wake only
   while the consumer is in that position or has not yet made its first call *)
C14_WakeFlagMeansBlocking ==
    /\ shared.producer_wake => OutArmedInside
    /\ shared.consumer_wake => (InArmedInside \/ InNotStarted)

(* C15: once shared.eos is true the shared producer_index never changes again,
   whatever the producer calls afterwards *)
C15_NoPublishAfterEos ==
    [][shared.eos => shared'.producer_index = shared.producer_index]_vars

(* after eos the producer has made a slow-path call that was turned away, with
   bytes published before *)
C15_Witness ==
    /\ shared.eos /\ published > 0
    /\ pt.pc = "done" /\ pt.call \in {"get", "flush"}
    /\ has_error(ostream.statusFlags)

(* C16: after set_end_of_stream has returned true every write on the producer
   stream, in either mode, returns a negative value and no byte is copied into
   the ring *)
C16_WriteAfterEosFails ==
    [][at_end(ostream.statusFlags) =>
         /\ ring' = ring
         /\ sent' = sent
         /\ (pt.pc = "idle" /\ pt'.call = "write") => (pt'.pc = "done" /\ pt'.ret < 0)]_vars

(* a write after set_end_of_stream has returned -1 *)
C16_Witness ==
    /\ at_end(ostream.statusFlags) /\ sent > 0
    /\ pt.pc = "done" /\ pt.call = "write" /\ pt.ret = -1

(* the last read call made at_end() true / started with at_end() true *)
BufReachedEnd ==
    bbLast.called /\ ~at_end(bbLast.pre.statusFlags) /\ at_end(bb.statusFlags)

BufLaterCall == bbLast.called /\ at_end(bbLast.pre.statusFlags)

(* what every sequence of reads gives: the source bytes in order, counted by
   the return values, all of them once the end is reached, and afterwards 0
   with at_end() and without error *)
BufDelivers ==
    /\ bbOut = SrcBytes(0, Len(bbOut))
    /\ bbSum = Len(bbOut) /\ bbSum <= bbLen
    /\ at_end(bb.statusFlags) => bbSum = bbLen
    /\ (bbLast.called /\ bbLast.size > 0) => (bbLast.ret > 0 \/ at_end(bb.statusFlags))
    /\ BufLaterCall => /\ bbLast.ret = 0
                       /\ at_end(bb.statusFlags)
                       /\ ~has_error(bb.statusFlags)

(* C19: for a byte-buffer input stream over a source of length L and any
   sequence of read calls, the non-negative return values sum to exactly L,
   the bytes returned are the source bytes in order, the call that reaches the
   end returns fewer bytes than requested, and every later call returns 0 with
   at_end() true and has_error() false *)
C19_ReadsSumToSource ==
    /\ BufDelivers
    /\ BufReachedEnd => bbLast.ret < bbLast.size

(* C19 as amended: the same for a source of at most 2^32 - 1 bytes, where the
   call that reaches the end returns fewer bytes than requested if it asked
   for at least one byte *)
C19_ReadsSumToSourceAmended ==
    fits_uint32(bbLen) =>
        /\ BufDelivers
        /\ (BufReachedEnd /\ bbLast.size > 0) => bbLast.ret < bbLast.size

(* a read that asked for more than was left has reached the end after an
   earlier read from the buffer *)
C19_Witness ==
    /\ BufReachedEnd /\ bbLast.ret > 0 /\ bbLast.ret < bbLast.size
    /\ bbLast.pre.bufferOffset > 0 /\ bbSum = bbLen

(* C20: a read(buf, size, mode) entered with buffer_available >= size > 0
   invokes no virtual slow-path method, increases buffer_offset by exactly
   size, decreases buffer_available by exactly size, leaves the status flags
   unchanged and returns size *)
C20_FastPathRead ==
    (bbLast.called /\ bbLast.size > 0 /\ bbLast.pre.bufferSize >= bbLast.size) =>
        /\ ~bbLast.slow
        /\ bb.bufferOffset = bbLast.pre.bufferOffset + bbLast.size
        /\ bb.bufferSize = bbLast.pre.bufferSize - bbLast.size
        /\ bb.statusFlags = bbLast.pre.statusFlags
        /\ bbLast.ret = bbLast.size

(* a read has taken exactly the bytes that were left in the buffer *)
C20_Witness ==
    /\ bbLast.called /\ bbLast.size > 1 /\ bbLast.pre.bufferSize = bbLast.size
    /\ bbLast.pre.bufferOffset > 0

(* C17: a NonBlocking write on the ring output stream while the ring is full
   and the consumer makes no progress returns 0, leaves has_error() false and
   leaves both shared indices unchanged, however often it is repeated; a
   would-block result of the event counter is never turned into an error *)
C17_FullRingWriteReturnsZero ==
    (/\ pt.pc = "done" /\ pt.call = "write" /\ pt.mode = "NonBlocking"
     /\ pt.entry # <<>> /\ released = pt.entry[3]) =>
        /\ pt.ret = 0
        /\ ~has_error(ostream.statusFlags)
        /\ shared.producer_index = pt.entry[1]
        /\ shared.consumer_index = pt.entry[2]

(* C17 as amended: the same for a stream that is not in error and on which
   set_end_of_stream has not been called *)
C17_FullRingWriteReturnsZeroAmended ==
    (/\ pt.pc = "done" /\ pt.call = "write" /\ pt.mode = "NonBlocking"
     /\ pt.entry # <<>> /\ released = pt.entry[3]
     /\ pt.entry[5] = 0) =>
        /\ pt.ret = 0
        /\ ~has_error(ostream.statusFlags)
        /\ shared.producer_index = pt.entry[1]
        /\ shared.consumer_index = pt.entry[2]

(* a repeated write: the stream is open, the event counter is already
   signalled and the producer's wake flag is set when the call is made *)
C17_Witness ==
    /\ pt.pc = "done" /\ pt.call = "write" /\ pt.mode = "NonBlocking"
    /\ pt.entry # <<>> /\ released = pt.entry[3] /\ pt.entry[5] = 0
    /\ pt.entry[4] = 1 /\ pt.ret = 0 /\ sent = ringSize /\ ringSize > 1

(* a step in which an event counter call or a wait of next_buffer fails *)
OutEventFails == pt.pc \in {"efd", "wait"} /\ ~fdOk /\ pt' # pt

InEventFails == ct.pc \in {"efd", "wait"} /\ ~fdOk /\ ct' # ct

(* next_buffer has returned the empty array to its caller *)
EmptyWindow(t) ==
    \/ t.pc = "copy" /\ t.win = 0
    \/ t.pc = "done" /\ t.call = "get" /\ t.ret = 0
    \/ t.pc = "done" /\ t.call = "flush" /\ t.ret = 0

(* C18: if an event-counter read or write fails (other than with would-block)
   or the wait on the event counter fails during a slow-path call of a ring
   stream, the stream's Error flag is set and stays set, the call yields an
   empty window, and the enclosing write or read returns a negative value *)
C18_EventFailureSetsError ==
    [][/\ OutEventFails => has_error(ostream'.statusFlags) /\ EmptyWindow(pt')
       /\ InEventFails => has_error(istream'.statusFlags) /\ EmptyWindow(ct')
       /\ has_error(ostream.statusFlags) => has_error(ostream'.statusFlags)
       /\ has_error(istream.statusFlags) => has_error(istream'.statusFlags)
       /\ (pt.pc = "copy" /\ pt.call = "write" /\ has_error(ostream.statusFlags)
           /\ pt' # pt) => (pt'.pc = "done" /\ pt'.ret < 0)
       /\ (ct.pc = "copy" /\ ct.call = "read" /\ has_error(istream.statusFlags)
           /\ ct' # ct) => (ct'.pc = "done" /\ ct'.ret < 0)]_vars

(* a Blocking write that had copied bytes into the ring before its wait failed
   has returned a negative value, and so has a read on the other side *)
C18_Witness ==
    /\ ~fdOk
    /\ pt.pc = "done" /\ pt.call = "write" /\ pt.mode = "Blocking" /\ pt.ret < 0
    /\ ostream.statusFlags = StatusError /\ sent = ringSize + 1 /\ recv # <<>>
    /\ ct.pc = "done" /\ ct.call = "read" /\ ct.ret < 0
    /\ istream.statusFlags = StatusError

(* C23: once the Error flag or the EndOfStream flag of a stream is set, no
   read, write, get_buffer, advance_buffer or flush_buffer call ever clears
   it; here for the byte buffer input stream *)
C23_FlagsAreSticky ==
    [][/\ has_error(bb.statusFlags) => has_error(bb'.statusFlags)
       /\ at_end(bb.statusFlags) => at_end(bb'.statusFlags)]_vars

(* C22: read(buf, 0, mode) on an input stream that is not in error returns 0,
   does not set the Error flag and trips no assertion, whether or not the
   buffer holds data; here for the fd input stream, with and without internal
   buffer, when no system call fails *)
C22_ZeroSizeRead ==
    (/\ fiObs.last.call = "read" /\ fiObs.last.size = 0
     /\ ~has_error(fiObs.last.pre.statusFlags)
     /\ fiObs.last.kind # "io")
    => (/\ fiObs.last.ret = 0
        /\ ~has_error(fi.statusFlags)
        /\ fiObs.abort = "none")

(* C24: when the fd stream cannot change O_NONBLOCK to match the mode of the
   call, the call sets the sticky Error flag and returns a negative value (an
   empty window for get_buffer) instead of carrying on with the system call *)
C24_FcntlFailureSetsError ==
    fiObs.last.fcntlFailed
    => (/\ has_error(fi.statusFlags)
        /\ fiEnv.pos = fiObs.last.prePos
        /\ IF fiObs.last.call = "get" THEN fiObs.last.ret = 0 ELSE fiObs.last.ret < 0)

(* C25: a stream set up as blocking rejects a NonBlocking read that has to go
   to the descriptor: Error is set, the read returns -1, status() is the
   bad-request value and O_NONBLOCK of the descriptor is as it was *)
C25_BlockingStreamRejectsNonBlocking ==
    (/\ fiObs.config = "Blocking"
     /\ fiObs.last.call = "read" /\ fiObs.last.mode = "NonBlocking"
     /\ fiObs.last.pre.fdBlocking = "Blocking"
     /\ fiObs.last.kind \notin {"fast", "closed", "io"})
    => (/\ has_error(fi.statusFlags)
        /\ fiObs.last.ret = -1
        /\ fi.err = "ReadBadRequest"
        /\ fiEnv.nonblock = fiObs.last.preNonblock)

(* C29: on a stream without internal buffer, a direct_read with required_read
   > 0 that meets the end of the stream before required_read bytes sets Error
   and returns a negative value; it never returns a count below required_read *)
C29_RequiredReadPastEnd ==
    (/\ fiObs.last.call = "direct" /\ fiObs.last.required > 0
     /\ ~has_error(fiObs.last.pre.statusFlags))
    => (/\ fiObs.last.ret < 0 \/ fiObs.last.ret >= fiObs.last.required
        /\ fiObs.last.kind = "eof"
           => has_error(fi.statusFlags) /\ fiObs.last.ret < 0)

(* the bytes of the window of the fd input stream *)
FiWindow == MemBytes(fi.mem, fi.bufferOffset, fi.bufferSize)

(* C26: on an fd input stream with internal buffer, whatever the partial
   results of readv, a Blocking read that meets no system call failure returns
   exactly min(size, bytes remaining); the bytes handed out, followed by the
   prefetched bytes still in the window, are the bytes taken from the
   descriptor, in order, none lost and none duplicated; a read that meets the
   end of the stream returns the partial count with EndOfStream set and Error
   clear *)
C26_BlockingReads ==
    (/\ manages_buffer(fi)
     /\ fiObs.last.call = "read" /\ fiObs.last.mode = "Blocking" /\ fiObs.last.size > 0
     /\ fiObs.last.kind \in {"fast", "data", "eof"})
    => (/\ fiObs.last.ret = Min(fiObs.last.size,
                                fiObs.last.pre.bufferSize + fiEnv.len - fiObs.last.prePos)
        /\ fiObs.out \o FiWindow = SrcBytes(0, fiEnv.pos)
        /\ Len(fiObs.out) = fiObs.last.prePos - fiObs.last.pre.bufferSize + fiObs.last.ret
        /\ fiObs.last.kind = "eof"
           => /\ at_end(fi.statusFlags) /\ ~has_error(fi.statusFlags)
              /\ fiObs.last.ret < fiObs.last.size)

(* a Blocking read of 2 bytes has taken one byte from the window and one from
   the descriptor, and readv has prefetched a further byte into the buffer *)
C26_Witness ==
    /\ manages_buffer(fi)
    /\ fiObs.last.call = "read" /\ fiObs.last.mode = "Blocking" /\ fiObs.last.size = 2
    /\ fiObs.last.kind = "data" /\ fiObs.last.pre.bufferSize = 1
    /\ fiObs.last.ret = 2 /\ fi.bufferSize = 1
    /\ fiObs.out = <<1, 2>> /\ FiWindow = <<3>>

(* the state of a stream a caller can tell apart: window position and size,
   status flags *)
FiSameState(a, b) ==
    /\ a.bufferOffset = b.bufferOffset
    /\ a.bufferSize = b.bufferSize
    /\ a.statusFlags = b.statusFlags

(* get_buffer(mode) has result g with a window of at least k bytes, and
   read(buf, k, mode) from the same state has a result that hands out the
   bytes at the start of that window and leaves the state advance_buffer(k)
   leaves after g *)
GetAdvanceIsARead(g, k, mode) ==
    \E r \in fi_read(fi, fiEnv, k, mode) :
        /\ r.ret = k
        /\ r.bytes = MemBytes(g.stream.mem, g.stream.bufferOffset, k)
        /\ FiSameState(r.stream, advance(g.stream, k))

(* C21: on a stream with internal buffer, get_buffer(mode) followed by
   advance_buffer(k), k no larger than the window returned, hands out the same
   k bytes and leaves the stream in the same state as read(buf, k, mode) from
   the same starting state; here from every state of the fd input stream *)
C21_GetAdvanceEqualsRead ==
    manages_buffer(fi) =>
        \A mode \in Modes, k \in 1..MaxChunk :
            \A g \in fi_get_buffer(fi, fiEnv, mode) :
                g.ret >= k => GetAdvanceIsARead(g, k, mode)

(* C21 amended: from a state whose window holds at least k >= 1 bytes,
   get_buffer(mode) followed by advance_buffer(k) and read(buf, k, mode) hand
   out the same k bytes and leave the stream and the descriptor in the same
   state, and that is the only result either has *)
C21_GetAdvanceEqualsReadAmended ==
    manages_buffer(fi) =>
        \A mode \in Modes, k \in 1..MaxChunk :
            fi.bufferSize >= k =>
                \A g \in fi_get_buffer(fi, fiEnv, mode), r \in fi_read(fi, fiEnv, k, mode) :
                    /\ g.ret >= k /\ r.ret = k
                    /\ r.bytes = MemBytes(g.stream.mem, g.stream.bufferOffset, k)
                    /\ r.stream = advance(g.stream, k)
                    /\ r.env = g.env

(* get_buffer has returned a window of two bytes the caller has not taken yet:
   a read of one or two bytes and advance_buffer start from the same window *)
C21_Witness ==
    /\ manages_buffer(fi)
    /\ fiObs.last.call = "get" /\ fiObs.last.ret = 2
    /\ fi.bufferSize = 2 /\ FiWindow = <<1, 2>>
    /\ fiObs.abort = "none"

(* C27: on an fd output stream with internal buffer, after any sequence of
   write and flush calls with whatever partial writev results, the bytes
   delivered to the descriptor followed by the bytes pending in the internal
   buffer are the bytes the write calls reported as accepted, in order; a
   Blocking write that returns without error returns size *)
C27_DeliveredThenPending ==
    manages_buffer(fo) =>
        /\ foEnv.sink \o PendingBytes(fo) = SrcBytes(0, foObs.acc)
        /\ (foObs.last.call = "write" /\ foObs.last.mode = "Blocking"
            /\ foObs.last.ret >= 0) => foObs.last.ret = foObs.last.size

(* C27 amended: the same, for as long as the Error flag of the stream is
   clear *)
C27_DeliveredThenPendingAmended ==
    (manages_buffer(fo) /\ ~has_error(fo.statusFlags)) =>
        /\ foEnv.sink \o PendingBytes(fo) = SrcBytes(0, foObs.acc)
        /\ (foObs.last.call = "write" /\ foObs.last.mode = "Blocking"
            /\ foObs.last.ret >= 0) => foObs.last.ret = foObs.last.size

(* a NonBlocking write found two bytes pending, writev took one of them, and
   the write accepted nothing: one byte delivered, one pending *)
C27_Witness ==
    /\ manages_buffer(fo) /\ ~has_error(fo.statusFlags)
    /\ foObs.last.call = "write" /\ foObs.last.mode = "NonBlocking"
    /\ foObs.last.size = 1 /\ foObs.last.ret = 0 /\ foObs.last.kind = "data"
    /\ foObs.acc = 2 /\ foEnv.sink = <<1>> /\ PendingBytes(fo) = <<2>>

(* C28: flush_buffer(mode) on an fd output stream returns true if and only if
   no byte remains in the internal buffer when it returns; in Blocking mode it
   returns false only together with the Error flag; on a stream without
   internal buffer it always returns true *)
C28_FlushResult ==
    foObs.last.call = "flush" =>
        /\ foObs.last.ret = 1 <=> PendingBytes(fo) = <<>>
        /\ (foObs.last.mode = "Blocking" /\ foObs.last.ret = 0) => has_error(fo.statusFlags)
        /\ ~manages_buffer(fo) => foObs.last.ret = 1

(* C28 amended: on a stream with internal buffer flush_buffer returns true if
   and only if the Error flag is clear and no byte remains in the internal
   buffer when it returns; the rest as before *)
C28_FlushResultAmended ==
    foObs.last.call = "flush" =>
        /\ manages_buffer(fo) =>
             (foObs.last.ret = 1 <=> (~has_error(fo.statusFlags) /\ PendingBytes(fo) = <<>>))
        /\ (foObs.last.mode = "Blocking" /\ foObs.last.ret = 0) => has_error(fo.statusFlags)
        /\ ~manages_buffer(fo) => foObs.last.ret = 1

(* a NonBlocking flush found two bytes pending, writev took one, and the flush
   returned false with the Error flag clear *)
C28_Witness ==
    /\ manages_buffer(fo) /\ ~has_error(fo.statusFlags)
    /\ foObs.last.call = "flush" /\ foObs.last.mode = "NonBlocking"
    /\ foObs.last.ret = 0 /\ foObs.last.kind = "data"
    /\ foEnv.sink = <<1>> /\ PendingBytes(fo) = <<2>>

(* the bytes an incremental_reader has stored, resp. the bytes an
   incremental_writer has put into the stream, are the first n - left bytes of
   the value, in order *)
IncTransferred ==
    IF inc.side = "reader"
    THEN SubSeq(inc.dst, 1, inc.n - inc.left) = SrcBytes(0, inc.n - inc.left)
    ELSE foEnv.sink \o PendingBytes(fo) = SrcBytes(0, inc.n - inc.left)

(* a step whose transfer reported an error has returned false and has left
   left and position as they were *)
IncFailedStep ==
    inc.c < 0 => (~inc.ret /\ inc.left = inc.preLeft /\ inc.position = inc.prePosition)

(* C30: after any sequence of steps of an incremental_reader or
   incremental_writer the bytes transferred are the first n - remaining bytes
   of the value in order; a step returns true if and only if remaining is 0
   after it; a step on a stream that reports an error returns false and
   transfers nothing *)
C30_IncrementalSteps ==
    inc.stepped =>
        /\ IncTransferred
        /\ inc.ret <=> inc.left = 0
        /\ IncFailedStep

(* C30 amended: a step whose transfer reports no error returns true if and
   only if remaining is 0 after it; the rest as before *)
C30_IncrementalStepsAmended ==
    inc.stepped =>
        /\ IncTransferred
        /\ inc.c >= 0 => (inc.ret <=> inc.left = 0)
        /\ IncFailedStep

(* a reader of two bytes took one byte in an earlier step and the second in
   its last step, which returned true *)
C30_Witness ==
    /\ inc.side = "reader" /\ inc.n = 2 /\ inc.stepped
    /\ inc.prePosition = 1 /\ inc.preLeft = 1 /\ inc.c = 1
    /\ inc.ret /\ inc.left = 0 /\ inc.dst = <<1, 2>>

(* C32: the consumer's next_buffer is only entered with the window fully
   consumed, so its entry assertion bufferSize == 0 holds for every sequence
   of public calls on the ring input stream *)
C32_NextBufferEntry ==
    ct.pc = "nb_publish" => istream.bufferSize = 0

(* C35: every call of set_end_of_stream writes to the event counter before it
   returns, also when the producer stream is in Error or EndOfStream state *)
C35_EosAlwaysSignals ==
    [][(pt'.call = "eos" /\ pt'.pc = "done" /\ pt.pc # "done")
       => (pt.pc = "eos_signal" /\ efd' = producer_write(efd))]_vars

(* a step of the producer resp. the consumer that leaves the event counter
   alone and stays off the places of next_buffer that call it *)
OutStepOffCounter == efd' = efd /\ pt'.pc \notin {"efd", "wait"}

InStepOffCounter == efd' = efd /\ ct'.pc \notin {"efd", "wait"}

(* C37: a producer slow-path call that has published bytes, finds
   consumer_wake false and then finds free space at its first check returns
   without a read or write of the event counter; the same for a consumer call
   that has released bytes, finds producer_wake false and then finds data *)
C37_NoCounterAccess ==
    [][/\ (pt' # pt /\ pt.pc = "nb_cas" /\ ~shared.consumer_wake)
           => (OutStepOffCounter /\ pt'.pc = "chk" /\ pt'.stage = 1 /\ ~pt'.wake)
       /\ (pt' # pt /\ pt.pc = "chk" /\ pt.stage = 1 /\ ostream'.bufferSize > 0)
           => (OutStepOffCounter /\ pt'.pc \in {"copy", "done"})
       /\ (ct' # ct /\ ct.pc = "nb_cas" /\ ~shared.producer_wake)
           => (InStepOffCounter /\ ct'.pc = "chk" /\ ct'.stage = 1 /\ ~ct'.wake)
       /\ (ct' # ct /\ ct.pc = "chk" /\ ct.stage = 1 /\ istream'.bufferSize > 0)
           => (InStepOffCounter /\ ct'.pc \in {"copy", "done"})]_vars

(* a write has filled its window and published it, found consumer_wake false,
   and is at its first check with free space in the ring and the event counter
   untouched *)
C37_Witness ==
    /\ pt.pc = "chk" /\ pt.stage = 1 /\ ~pt.wake
    /\ pt.call = "write" /\ pt.count > 0
    /\ ~shared.consumer_wake /\ efd = 0
    /\ out_update_buffer_size(ostream, shared.consumer_index, ostream.lastIndex,
                               ostream.segmentLimit, ringSize).bufferSize > 0

(* C36: with the ring size clamped to max_size(), no value the mirrored index
   arithmetic computes (2*N, i + k, 2*N - c + p, c - N - p, N - (p - c) and
   the steps between) leaves the range of the index type, for every reachable
   pair of indices and every count up to N *)
InSizeType(x) == x >= 0 /\ x <= SizeTypeMax

C36_NoIndexWrap ==
    /\ algN >= 1 => algN <= mirrored_index_max_size
    /\ algN >= 1 =>
         \A x \in producer_free_slots_steps(algP, algC, algN)
                 \cup consumer_free_slots_steps(algP, algC, algN)
                 \cup UNION {new_index_steps(algP, k, algN) : k \in 0..algN}
                 \cup UNION {new_index_steps(algC, k, algN) : k \in 0..algN} :
             InSizeType(x)

(* the largest ring, with the producer index wrapped past the consumer's *)
C36_Witness ==
    /\ algN = mirrored_index_max_size
    /\ algP < algC
    /\ algSide = "producer"
    /\ algK = algN

(* C38: the count the producer of a handle holds as available never exceeds
   the slots that are free, the count the consumer holds never exceeds the
   slots published and not released, and the ranges of the two sides share
   no slot *)
C38_HandleRanges ==
    hd.n >= 1 =>
        /\ hd_producer_last_available(hd) <= hd.n - Cardinality(hd.filled)
        /\ hd_consumer_last_available(hd) <= Cardinality(hd.filled)
        /\ hd_producer_ranges(hd) \cap hd.filled = {}
        /\ hd_consumer_ranges(hd) \subseteq hd.filled
        /\ hd_producer_ranges(hd) \cap hd_consumer_ranges(hd) = {}

(* both sides hold a stale copy of the other's index and a range of their own *)
C38_Witness ==
    /\ hd.n >= 2
    /\ hd.last = "release"
    /\ hd.shared_producer_index < hd.shared_consumer_index
    /\ hd_producer_last_available(hd) >= 1
    /\ hd.consumer.local_producer_index # hd.shared_producer_index
    /\ hd_consumer_last_available(hd) >= 1
    /\ hd_producer_last_available(hd) < hd.n - Cardinality(hd.filled)

(* C39 as stated: the producer's index and the consumer's index of a
   triple_buffer_spsc are different values of {0, 1, 2} at every moment *)
C39_IndicesDiffer ==
    tb.run =>
        /\ tb.producer_idx \in 0..2 /\ tb.consumer_idx \in 0..2
        /\ tb.producer_idx # tb.consumer_idx

(* the index a side holds: the result of its exchange while the store of
   that result to its index field is still to come, else the field *)
TbProducerHeld == IF tb.ppc = "store" THEN tb.pret ELSE tb.producer_idx

TbConsumerHeld == IF tb.cpc = "store" THEN tb.cret ELSE tb.consumer_idx

(* C39 amended: the indices held by the two sides and the idle index are a
   permutation of {0, 1, 2} at every moment, and the two index fields differ
   whenever neither side is inside a swap *)
C39_HeldIndicesPermutation ==
    tb.run =>
        /\ {TbProducerHeld, TbConsumerHeld, tb.idle_idx} = {0, 1, 2}
        /\ (tb.ppc = "idle" /\ tb.cpc = "idle")
               => (/\ tb.producer_idx # tb.consumer_idx
                   /\ {tb.producer_idx, tb.consumer_idx, tb.idle_idx} = {0, 1, 2})

(* the producer is between its exchange and its store while the consumer has
   completed a swap that took the buffer the producer gave up *)
C39_Witness ==
    /\ tb.run
    /\ tb.ppc = "store" /\ tb.cpc = "idle"
    /\ tb.producer_idx = tb.consumer_idx
    /\ tb.pret # tb.consumer_idx

(* the addresses of the bytes an io_vector array describes, in order; each
   address stands for the byte stored there *)
RECURSIVE IoVectorBytes(_)
IoVectorBytes(a) ==
    IF a = <<>> THEN <<>>
    ELSE [j \in 1..a[1].iov_len |-> a[1].iov_base + j - 1] \o IoVectorBytes(Tail(a))

IoVectorLens(a) == [k \in 1..Len(a) |-> a[k].iov_len]

(* C40: io_vector_array_advance(array, size) with size at most the sum of
   the lengths returns a tail of the array whose lengths sum to the old sum
   less size and whose bytes are the bytes of the original after its first
   size bytes; the elements before the tail lie within those first size bytes *)
C40_AdvanceTail ==
    adv.st = "done" =>
        LET sum  == io_vector_array_size_sum(IoVectorLens(adv.orig))
            view == array_sub(adv.array, adv.i)
        IN  /\ adv.i <= Len(adv.orig)
            /\ io_vector_array_size_sum(IoVectorLens(view)) = sum - adv.size
            /\ IoVectorBytes(view) = SubSeq(IoVectorBytes(adv.orig), adv.size + 1, sum)
            /\ \A j \in 2..Len(view) : view[j] = adv.orig[adv.i + j]
            /\ io_vector_array_size_sum(IoVectorLens(SubSeq(adv.orig, 1, adv.i)))
                   <= adv.size

(* the call skipped an element and cut into the next one *)
C40_Witness ==
    /\ adv.st = "done"
    /\ adv.i >= 1 /\ adv.i < Len(adv.orig)
    /\ adv.orig[1].iov_len > 0
    /\ adv.array[adv.i + 1].iov_len > 0
    /\ adv.array[adv.i + 1].iov_len < adv.orig[adv.i + 1].iov_len

(* C31: erase(index, count) with index <= size() removes the bytes
   [index, index + min(count, size() - index)), keeps the others in their
   order and reduces size() by that amount, in the small representation as
   in the external one *)
C31_EraseExact ==
    era.st = "done" =>
        LET cnt == Min(era.count, Len(era.pre) - era.index)
        IN  /\ bb_size(era.b) = Len(era.pre) - cnt
            /\ bb_ref(era.b) = SubSeq(era.pre, 1, era.index)
                                  \o SubSeq(era.pre, era.index + cnt + 1, Len(era.pre))

(* C33: a write of s bytes that takes the slow path on a
   byte_buffer_output_stream that is not in error, with the buffer size plus
   s within byte_buffer::max_size(), returns s, sets no error and leaves the
   buffer holding the bytes written before followed by the s bytes *)
C33_SlowWriteSucceeds ==
    (/\ bos.last.op = "write" /\ bos.last.slow
     /\ bos.last.preFlags = 0
     /\ Len(bos.last.expect) <= ByteBufferMaxSize)
        => (/\ bos.last.ret = bos.last.size
            /\ bos.status_flags = 0
            /\ bb_ref(bos.buffer) = bos.last.expect)

(* C34: after fd_output_stream::set_descriptor the stream has no error,
   status() is WriteNoError and the internal buffer is empty, whatever the
   state of the stream before the call *)
C34_SetDescriptorResets ==
    foObs.last.call = "set_descriptor" =>
        /\ ~has_error(fo.statusFlags)
        /\ fo.err = "WriteNoError"
        /\ PendingBytes(fo) = <<>>
        /\ fo.bufferOffset = 0

====
